---- MODULE Spec2Model ----
(***************************************************************************)
(* Model of the guarded network layer (net_guardrails.py, safe_fetch.py,   *)
(* crawl_v1.py, indexability_signals.py, audit.py) and of the finding      *)
(* policy gate (finding_policy.py) of deterministic-website-audit.         *)
(*                                                                         *)
(* Three specifications share the variables:                               *)
(*   SpecNet     the fetch clients against an adversarial DNS and server   *)
(*   SpecRead    read_limited_text applied to bounded responses            *)
(*   SpecPolicy  enforce_policy_on_findings applied to bounded findings    *)
(***************************************************************************)
EXTENDS Integers, Sequences, FiniteSets, TLC

VARIABLES
    frame,         \* the running client function and its local variables
    wire,          \* what the running client has put on the network
    result,        \* the return value of the client that ran last
    rl,            \* one read_limited_text call: its arguments and its result
    findings,      \* the list handed to enforce_policy_on_findings
    findings_in,   \* that list as it was before the gate ran
    napplied,      \* how often the gate has run on the list
    robots,        \* one robots.txt: its text, the parsed rules, the policy built
    crawl,         \* one crawl: discovered urls, selected urls, page records
    idx            \* one indexability evaluation: signals in, findings out

netvars == <<frame, wire, result>>
readvars == <<rl>>
policyvars == <<findings, findings_in, napplied>>
robotsvars == <<robots>>
crawlvars == <<crawl>>
idxvars == <<idx>>
vars == <<netvars, readvars, policyvars, robotsvars, crawlvars, idxvars>>

\* Python None where a string is expected, and where an int is expected
None == "None"
NoneInt == -1

\* ---------------------------------------------------------------------------
\* Bounds
\* ---------------------------------------------------------------------------
\* longest DNS answer (number of addresses getaddrinfo returns)
MaxAnswerLen == 2
\* largest byte cap tried with read_limited_text
MaxCap == 3
\* most bytes in one chunk of a response body
MaxChunkLen == 2
\* most chunks in a response body
MaxChunks == 3
\* longest findings list
MaxFindings == 2
\* most applications of the policy gate to one list
MaxApply == 3
\* most lines in a robots.txt
MaxLines == 3
\* most characters in a Disallow rule
MaxRuleLen == 2
\* most characters in a url path
MaxPathLen == 3
\* longest list of discovered urls handed to select_urls
MaxUrls == 3
\* largest max_pages tried with select_urls
MaxPages == 2
\* longest discovered list crawl_site starts its selection with
MaxCrawlUrls == 2
\* most rounds of the breadth-first loop in which a page may answer
MaxBfsRounds == 2
\* most sitemaps fetched in one discovery; only before the last of them may a
\* sitemap index name a further sitemap
MaxSitemapFetches == 2001

\* ---------------------------------------------------------------------------
\* Program constants
\* ---------------------------------------------------------------------------
MAX_REDIRECTS == 10
MAX_HOPS == 8
MAX_HTML_BYTES == 2 * 1024 * 1024
HARD_CAP_DISCOVERED == 2000
HARD_CAP_ANALYZED == 500
TARGET_ANALYZED == 25
\* requests' own redirect limit, which requests.get applies
DEFAULT_REDIRECT_LIMIT == 30

\* ---------------------------------------------------------------------------
\* IP addresses and networks (ipaddress.ip_address / ip_network)
\* An address is its version and its groups: 4 octets or 8 hextets.
\* ---------------------------------------------------------------------------
V4(a, b, c, d) == [v |-> 4, g |-> <<a, b, c, d>>]
V6(a, b, c, d, e, f, h, i) == [v |-> 6, g |-> <<a, b, c, d, e, f, h, i>>]
Net(ip, len) == [ip |-> ip, len |-> len]

RECURSIVE Pow2(_)
Pow2(n) == IF n = 0 THEN 1 ELSE 2 * Pow2(n - 1)

GroupWidth(ip) == IF ip.v = 4 THEN 8 ELSE 16

\* `ip_obj in private_range`: same version and same leading len bits
InNetwork(ip, net) ==
    /\ ip.v = net.ip.v
    /\ \A i \in 1..Len(ip.g) :
          LET w == GroupWidth(ip)
              r == net.len - (i - 1) * w
          IN  IF r >= w THEN ip.g[i] = net.ip.g[i]
              ELSE IF r > 0
                   THEN ip.g[i] \div Pow2(w - r) = net.ip.g[i] \div Pow2(w - r)
                   ELSE TRUE

PRIVATE_IP_RANGES == {
    Net(V4(10, 0, 0, 0), 8),
    Net(V4(172, 16, 0, 0), 12),
    Net(V4(192, 168, 0, 0), 16),
    Net(V4(127, 0, 0, 0), 8),
    Net(V4(169, 254, 0, 0), 16),
    Net(V6(0, 0, 0, 0, 0, 0, 0, 1), 128),
    Net(V6(64512, 0, 0, 0, 0, 0, 0, 0), 7),
    Net(V6(65152, 0, 0, 0, 0, 0, 0, 0), 10) }


\* The addresses the DNS may answer with
IP_LOOPBACK == V4(127, 0, 0, 1)
IP_TEN == V4(10, 1, 2, 3)
IP_192 == V4(192, 168, 1, 1)
IP_172 == V4(172, 16, 0, 1)
IP_METADATA == V4(169, 254, 169, 254)
IP6_LOOPBACK == V6(0, 0, 0, 0, 0, 0, 0, 1)
IP6_ULA == V6(64512, 0, 0, 0, 0, 0, 0, 1)
IP6_LINKLOCAL == V6(65152, 0, 0, 0, 0, 0, 0, 1)
IP_UNSPECIFIED == V4(0, 0, 0, 0)
IP6_UNSPECIFIED == V6(0, 0, 0, 0, 0, 0, 0, 0)
IP_PUBLIC == V4(8, 8, 8, 8)

\* {127.0.0.1, 10.1.2.3, 192.168.1.1, 169.254.169.254, ::1, fc00::1, fe80::1}
ListedUnsafeIPs == {IP_LOOPBACK, IP_TEN, IP_192, IP_METADATA,
                    IP6_LOOPBACK, IP6_ULA, IP6_LINKLOCAL}
UnspecifiedIPs == {IP_UNSPECIFIED, IP6_UNSPECIFIED}
IPS == ListedUnsafeIPs \cup UnspecifiedIPs \cup {IP_172, IP_PUBLIC}

\* `for private_range in PRIVATE_IP_RANGES: if ip_obj in private_range`,
\* tabulated over the addresses of the model
PrivateRangeHit == [ip \in IPS |-> \E private_range \in PRIVATE_IP_RANGES :
                                      InNetwork(ip, private_range)]
InPrivateRanges(ip) == PrivateRangeHit[ip]

\* What the spec calls unsafe: private, loopback, link-local, unique-local,
\* unspecified
UnsafeAddress(ip) == ip \in ListedUnsafeIPs \cup UnspecifiedIPs \cup {IP_172}

\* socket.getaddrinfo: raises gaierror or returns a non-empty address list
\* (the empty list stands for gaierror)
GaiError == <<>>
RECURSIVE SeqsUpTo(_, _)
SeqsUpTo(S, n) ==
    IF n = 0 THEN {<<>>}
    ELSE LET shorter == SeqsUpTo(S, n - 1)
         IN  shorter \cup {Append(s, x) : s \in shorter, x \in S}
Answers == SeqsUpTo(IPS, MaxAnswerLen)

\* ---------------------------------------------------------------------------
\* URLs (urllib.parse.urlparse / urljoin)
\* ---------------------------------------------------------------------------
Schemes == {"https", "ftp"}
Hosts == {"site", "other", ""}
Paths == {"/"}
URLS == [scheme : Schemes, host : Hosts, path : Paths]
NoURL == [scheme |-> "", host |-> "", path |-> ""]

\* A Location header: absent, an absolute url, or an absolute path
NoLocation == [kind |-> "none", url |-> NoURL]
Locations == {[kind |-> "abs", url |-> u] : u \in URLS}
             \cup {[kind |-> "rel", url |-> [scheme |-> "", host |-> "", path |-> p]] : p \in Paths}

\* urljoin(base, location): a location without scheme, or with the base's
\* scheme and no netloc, is resolved against the base; any other is kept
urljoin(base, location) ==
    IF location.kind = "rel" \/ (location.url.scheme = base.scheme /\ location.url.host = "")
    THEN [scheme |-> base.scheme, host |-> base.host, path |-> location.url.path]
    ELSE location.url

\* ---------------------------------------------------------------------------
\* net_guardrails.validate_url: "ok" or the reason of the ValueError
\* ---------------------------------------------------------------------------
\* (mutant: a resolution failure is let through)
validate_url_failopen(u, ip_list) ==
    IF u.scheme \notin {"http", "https"} THEN "unsafe_scheme"
    ELSE IF u.host = "" THEN "missing_hostname"
    ELSE IF \E i \in 1..Len(ip_list) : InPrivateRanges(ip_list[i]) THEN "private_ip"
    ELSE "ok"

validate_url(u, ip_list) ==
    IF u.scheme \notin {"http", "https"} THEN "unsafe_scheme"
    ELSE IF u.host = "" THEN "missing_hostname"
    ELSE IF ip_list = GaiError THEN "dns_resolution_failed"
    ELSE IF \E i \in 1..Len(ip_list) : InPrivateRanges(ip_list[i]) THEN "private_ip"
    ELSE "ok"

\* validate_url decides on scheme and hostname before it calls getaddrinfo
NeedsLookup(u) == u.scheme \in {"http", "https"} /\ u.host # ""

\* ---------------------------------------------------------------------------
\* safe_fetch: resolve, check the first address, pin it
\* ---------------------------------------------------------------------------
NoIP == [v |-> 0, g |-> <<>>]

\* SafeTransportAdapter.resolve_and_check: the pinned ip, or NoIP for ValueError
resolve_and_check(addr_info) ==
    IF addr_info = GaiError THEN NoIP
    ELSE IF InPrivateRanges(addr_info[1]) THEN NoIP
    ELSE addr_info[1]

\* SafePoolManager.connection_from_host: pool_kwargs['_pinned_ip'], or NoIP
\* for ValueError
connection_from_host(addr_info) ==
    IF addr_info = GaiError THEN NoIP
    ELSE IF InPrivateRanges(addr_info[1]) THEN NoIP
    ELSE addr_info[1]

\* (mutant: the pool forgets to hand its pinned ip to the connection)
PoolNewConn_unpinned(pool_pinned_ip) == NoIP

\* Safe*ConnectionPool._new_conn: conn._pinned_ip = self._pinned_ip
PoolNewConn(pool_pinned_ip) == pool_pinned_ip

\* SafeConnectionMixin._new_conn: the address socket.create_connection dials.
\* Without a pinned ip the connection resolves the host name itself.
ConnDials(conn_pinned_ip, ip) ==
    IF conn_pinned_ip # NoIP THEN ip = conn_pinned_ip
    ELSE \E addr_info \in Answers \ {GaiError} : \E i \in 1..Len(addr_info) : ip = addr_info[i]

\* ---------------------------------------------------------------------------
\* Responses and net_guardrails.read_limited_text
\* ---------------------------------------------------------------------------
Bytes == {"a", "x80"}
\* resp.encoding: unset, a codec, or a name no codec has
Encodings == {None, "latin-1", "bogus"}
ChunkSeqs == SeqsUpTo(SeqsUpTo(Bytes, MaxChunkLen), MaxChunks)

\* Content-Length: absent, not a number, or a number
ContentLengths == {[kind |-> "absent", n |-> 0], [kind |-> "garbage", n |-> 0]}
                  \cup {[kind |-> "int", n |-> n] : n \in 0..(MaxCap + 1)}

\* bytes.decode(encoding, errors="replace")
DecodeByte(b, encoding) ==
    IF b = "x80" THEN (IF encoding = "latin-1" THEN "u0080" ELSE "ufffd") ELSE b
Decode(data, encoding) == [i \in 1..Len(data) |-> DecodeByte(data[i], encoding)]
\* `resp.encoding or "utf-8"`, and utf-8 again when the codec lookup fails
Codec(encoding) == IF encoding = "latin-1" THEN "latin-1" ELSE "utf-8"

\* (mutant: a body of exactly max_bytes counts as too large)
OverCap_inclusive(size, cap) == cap # NoneInt /\ size >= cap

\* `size > max_bytes` of the streaming loop
OverCap(size, cap) == cap # NoneInt /\ size > cap

\* the for loop over resp.iter_content, from chunk i on
RECURSIVE ReadLoop(_, _, _, _, _, _)
ReadLoop(chunks, i, data, size, cap, encoding) ==
    IF i > Len(chunks)
    THEN [text |-> Decode(data, Codec(encoding)),
          too_large |-> FALSE, chunks_read |-> Len(chunks), buffered |-> size]
    ELSE IF chunks[i] = <<>>
    THEN ReadLoop(chunks, i + 1, data, size, cap, encoding)
    ELSE IF OverCap(size + Len(chunks[i]), cap)
    THEN [text |-> <<>>, too_large |-> TRUE, chunks_read |-> i,
          buffered |-> size + Len(chunks[i])]
    ELSE ReadLoop(chunks, i + 1, data \o chunks[i], size + Len(chunks[i]), cap, encoding)

\* the Content-Length test that precedes the loop
ContentLengthOverCap(content_length, cap) ==
    cap # NoneInt /\ content_length.kind = "int" /\ content_length.n > cap

read_limited_text(r, cap) ==
    IF ContentLengthOverCap(r.content_length, cap)
    THEN [text |-> <<>>, too_large |-> TRUE, chunks_read |-> 0, buffered |-> 0]
    ELSE ReadLoop(r.chunks, 1, <<>>, 0, cap, r.encoding)

\* What a server may answer
RedirectStatuses == {301, 302, 303, 307, 308}
Statuses == RedirectStatuses \cup {200, 404, 500}
NetBodies == {<<>>, <<<<"a">>>>, <<<<"a", "a">>, <<"a", "a">>>>}
NetContentLengths == {[kind |-> "absent", n |-> 0], [kind |-> "int", n |-> MaxCap + 1],
                      [kind |-> "int", n |-> MAX_HTML_BYTES + 1]}
\* A redirect status with a Location header (no client reads its body), or any
\* status without one, with a body
Responses ==
    [status : RedirectStatuses, location : Locations,
     content_length : {[kind |-> "absent", n |-> 0]}, chunks : {<<>>},
     encoding : {None}, html : {TRUE}]
    \cup
    [status : Statuses, location : {NoLocation},
     content_length : NetContentLengths, chunks : NetBodies,
     encoding : {None}, html : BOOLEAN]

\* ---------------------------------------------------------------------------
\* State of the fetch clients
\* ---------------------------------------------------------------------------
NoRequest == [url |-> NoURL, validated |-> FALSE]
NoSocket == [ip |-> NoIP, checked |-> NoIP, safe_session |-> FALSE]
NoLookup == [by |-> "", ip_list |-> <<>>, unsafe |-> FALSE]
NoResult == [fn |-> "", status |-> NoneInt, body |-> <<>>, final_url |-> NoURL,
             error |-> None, loop |-> FALSE, too_many |-> FALSE, chain |-> 0]

\* validate_url saw ip_list
ValidateSaw(ip_list) ==
    [by |-> "validate_url", ip_list |-> ip_list,
     unsafe |-> \E i \in 1..Len(ip_list) : UnsafeAddress(ip_list[i])]
\* connection_from_host saw addr_info when it built the pool of the request
PoolSaw(addr_info) ==
    [by |-> "connection_from_host", ip_list |-> <<>>,
     unsafe |-> \E i \in 1..Len(addr_info) : UnsafeAddress(addr_info[i])]

SafeClients == {"_fetch", "fetch_pages"}
PlainClients == {"_fetch_with_redirects", "_fetch_url", "fetch_html"}

IdleFrame == [op |-> "idle", pc |-> "idle", url |-> NoURL, current_url |-> NoURL,
              redirects |-> 0, max_bytes |-> NoneInt, pinned_ip |-> NoIP,
              visited |-> {}]
\* hop: how many redirects led to the url the client is dealing with;
\* validated: the url of this hop once it has passed validate_url;
\* dns_seen: the address list the most recent safety check looked at;
\* request, socket: the HTTP request awaiting its response and the connection
\* that carries it;  nreq, nsock: requests sent and sockets opened by the
\* running client
NewWire == [hop |-> 0, validated |-> NoURL, dns_seen |-> NoLookup,
            request |-> NoRequest, socket |-> NoSocket, nreq |-> 0, nsock |-> 0]

\* the client function fn is called
Call(fn, u, first_pc, cap) ==
    /\ frame.op = "idle"
    /\ frame' = [IdleFrame EXCEPT !.op = fn, !.pc = first_pc, !.url = u,
                                  !.current_url = u, !.max_bytes = cap]
    /\ wire' = NewWire
    /\ result' = NoResult

\* the running client returns r
Return(r) ==
    /\ result' = r
    /\ frame' = IdleFrame
    /\ wire' = [wire EXCEPT !.validated = NoURL, !.request = NoRequest,
                            !.socket = NoSocket, !.dns_seen = NoLookup]

\* the running client moves to position p
Goto(p) ==
    /\ frame' = [frame EXCEPT !.pc = p]
    /\ UNCHANGED <<wire, result>>

\* the running client turns to next_url at position p
Hop(next_url, hops, p) ==
    /\ frame' = [frame EXCEPT !.current_url = next_url, !.redirects = hops,
                              !.pc = p, !.pinned_ip = NoIP]
    /\ wire' = [wire EXCEPT !.hop = hops, !.validated = NoURL, !.request = NoRequest,
                            !.socket = NoSocket, !.dns_seen = NoLookup]
    /\ UNCHANGED result

Outcome(fn, status, body, final_url, error) ==
    [fn |-> fn, status |-> status, body |-> body, final_url |-> final_url,
     error |-> error, loop |-> FALSE, too_many |-> FALSE, chain |-> 0]

\* getaddrinfo is called only for a url with an http(s) scheme and a hostname
Lookups(u) == IF NeedsLookup(u) THEN Answers ELSE {GaiError}

\* ---------------------------------------------------------------------------
\* crawl_v1._fetch
\* ---------------------------------------------------------------------------
FetchCaps == {NoneInt, 1, MAX_HTML_BYTES}

Start_fetch ==
    /\ \E u \in URLS, cap \in FetchCaps : Call("_fetch", u, "validate", cap)
    /\ UNCHANGED <<readvars, policyvars, robotsvars, crawlvars, idxvars>>

\* validate_url(url) before the loop, validate_url(next_url) inside it
FetchValidate ==
    /\ frame.op = "_fetch" /\ frame.pc = "validate"
    /\ \E ip_list \in Lookups(frame.current_url) :
          LET saw == IF NeedsLookup(frame.current_url)
                     THEN ValidateSaw(ip_list) ELSE NoLookup
          IN  IF validate_url(frame.current_url, ip_list) # "ok"
              THEN /\ result' = Outcome("_fetch", NoneInt, <<>>, frame.current_url,
                                        "invalid_url")
                   /\ frame' = IdleFrame
                   /\ wire' = [wire EXCEPT !.dns_seen = saw, !.validated = NoURL,
                                           !.request = NoRequest, !.socket = NoSocket]
              ELSE /\ frame' = [frame EXCEPT !.pc = "send"]
                   /\ wire' = [wire EXCEPT !.dns_seen = saw,
                                           !.validated = frame.current_url]
                   /\ UNCHANGED result
    /\ UNCHANGED <<readvars, policyvars, robotsvars, crawlvars, idxvars>>

\* what the handlers of the running client do with a ValueError of session.get
RaiseValueError ==
    Return(Outcome(frame.op, NoneInt, <<>>,
                   IF frame.op = "_fetch" THEN frame.current_url ELSE frame.url,
                   "invalid_url"))

\* ---------------------------------------------------------------------------
\* session.get through SafeTransportAdapter (safe_session)
\* ---------------------------------------------------------------------------
\* SafeTransportAdapter.send: resolve_and_check(parsed.hostname)
SafeSendResolve ==
    /\ frame.op \in SafeClients /\ frame.pc = "send"
    /\ \E addr_info \in Lookups(frame.current_url) :
          IF resolve_and_check(addr_info) = NoIP THEN RaiseValueError
          ELSE /\ frame' = [frame EXCEPT !.pc = "get_connection"]
               /\ wire' = [wire EXCEPT !.dns_seen = NoLookup]
               /\ UNCHANGED result
    /\ UNCHANGED <<readvars, policyvars, robotsvars, crawlvars, idxvars>>

\* SafeTransportAdapter.get_connection: resolve_and_check again
SafeGetConnection ==
    /\ frame.op \in SafeClients /\ frame.pc = "get_connection"
    /\ \E addr_info \in Answers :
          IF resolve_and_check(addr_info) = NoIP THEN RaiseValueError
          ELSE Goto("get_connection_pool")
    /\ UNCHANGED <<readvars, policyvars, robotsvars, crawlvars, idxvars>>

\* super().get_connection: a pool from connection_from_host that send drops
SafeGetConnectionPool ==
    /\ frame.op \in SafeClients /\ frame.pc = "get_connection_pool"
    /\ \E addr_info \in Answers :
          IF connection_from_host(addr_info) = NoIP THEN RaiseValueError
          ELSE Goto("send_pool")
    /\ UNCHANGED <<readvars, policyvars, robotsvars, crawlvars, idxvars>>

\* super().send: the pool of this request, from connection_from_host
SafeSendPool ==
    /\ frame.op \in SafeClients /\ frame.pc = "send_pool"
    /\ \E addr_info \in Answers :
          IF connection_from_host(addr_info) = NoIP THEN RaiseValueError
          ELSE /\ frame' = [frame EXCEPT !.pc = "connect",
                                         !.pinned_ip = connection_from_host(addr_info)]
               /\ wire' = [wire EXCEPT !.dns_seen = PoolSaw(addr_info)]
               /\ UNCHANGED result
    /\ UNCHANGED <<readvars, policyvars, robotsvars, crawlvars, idxvars>>

\* the pool's _new_conn and the connection's _new_conn: the socket is opened
\* and the request goes out
SafeConnect ==
    /\ frame.op \in SafeClients /\ frame.pc = "connect"
    /\ \E ip \in IPS :
          /\ ConnDials(PoolNewConn(frame.pinned_ip), ip)
          /\ wire' = [wire EXCEPT
                 !.socket = [ip |-> ip, checked |-> frame.pinned_ip, safe_session |-> TRUE],
                 !.request = [url |-> frame.current_url,
                              validated |-> (wire.validated = frame.current_url)],
                 !.nsock = @ + 1,
                 !.nreq = @ + 1]
    /\ frame' = [frame EXCEPT !.pc = "response"]
    /\ UNCHANGED result
    /\ UNCHANGED <<readvars, policyvars, robotsvars, crawlvars, idxvars>>

\* ---------------------------------------------------------------------------
\* crawl_v1._fetch: the body of the while loop after session.get
\* ---------------------------------------------------------------------------
\* (mutant: the limit is off by one)
TooManyRedirects_offbyone(n) == n > MAX_REDIRECTS + 1

\* `redirects > MAX_REDIRECTS`, after redirects += 1
TooManyRedirects(n) == n > MAX_REDIRECTS

\* lines 289-292: the return after read_limited_text
FetchBody(status, read, final_url) ==
    IF read.too_large
    THEN Outcome("_fetch", status, <<>>, final_url, "too_large")
    ELSE Outcome("_fetch", status, read.text, final_url, None)

\* (mutant: the redirect target is requested without validate_url)
FetchOnResponse_norevalidate(r) ==
    IF r.status \in RedirectStatuses
    THEN IF r.location = NoLocation
         THEN Return(Outcome("_fetch", NoneInt, <<>>, frame.current_url, "fetch_error"))
         ELSE IF TooManyRedirects(frame.redirects + 1)
         THEN Return(Outcome("_fetch", NoneInt, <<>>, frame.current_url,
                             "too_many_redirects"))
         ELSE Hop(urljoin(frame.current_url, r.location), frame.redirects + 1, "send")
    ELSE Return(FetchBody(r.status, read_limited_text(r, frame.max_bytes),
                          frame.current_url))

FetchOnResponse(r) ==
    IF r.status \in RedirectStatuses
    THEN IF r.location = NoLocation
         THEN Return(Outcome("_fetch", NoneInt, <<>>, frame.current_url, "fetch_error"))
         ELSE IF TooManyRedirects(frame.redirects + 1)
         THEN Return(Outcome("_fetch", NoneInt, <<>>, frame.current_url,
                             "too_many_redirects"))
         ELSE Hop(urljoin(frame.current_url, r.location), frame.redirects + 1, "validate")
    ELSE Return(FetchBody(r.status, read_limited_text(r, frame.max_bytes),
                          frame.current_url))

FetchResponse ==
    /\ frame.op = "_fetch" /\ frame.pc = "response"
    /\ \/ \E r \in Responses : FetchOnResponse(r)
       \/ \* requests.exceptions.RequestException
          Return(Outcome("_fetch", NoneInt, <<>>, frame.current_url, "fetch_error"))
    /\ UNCHANGED <<readvars, policyvars, robotsvars, crawlvars, idxvars>>

\* ---------------------------------------------------------------------------
\* requests following redirects itself (allow_redirects=True):
\* Session.resolve_redirects
\* ---------------------------------------------------------------------------
IsRedirect(r) == r.status \in RedirectStatuses /\ r.location # NoLocation

\* ---------------------------------------------------------------------------
\* crawl_v1.fetch_pages: one url of the loop, robots_policy=None
\* ---------------------------------------------------------------------------
Start_fetch_pages ==
    /\ \E u \in URLS : Call("fetch_pages", u, "send", MAX_HTML_BYTES)
    /\ UNCHANGED <<readvars, policyvars, robotsvars, crawlvars, idxvars>>

PagesOnResponse(r) ==
    IF IsRedirect(r)
    THEN IF frame.redirects >= MAX_REDIRECTS
         THEN Return(Outcome("fetch_pages", NoneInt, <<>>, frame.url, "too_many_redirects"))
         ELSE Hop(urljoin(frame.current_url, r.location), frame.redirects + 1, "send")
    ELSE IF ~r.html
    THEN Return(Outcome("fetch_pages", r.status, <<>>, frame.url, "non_html"))
    ELSE LET read == read_limited_text(r, frame.max_bytes)
         IN  IF read.too_large
             THEN Return(Outcome("fetch_pages", r.status, <<>>, frame.url, "too_large"))
             ELSE Return(Outcome("fetch_pages", r.status, read.text, frame.url, None))

PagesResponse ==
    /\ frame.op = "fetch_pages" /\ frame.pc = "response"
    /\ \/ \E r \in Responses : PagesOnResponse(r)
       \/ \* except Exception: html = ""
          Return(Outcome("fetch_pages", NoneInt, <<>>, frame.url, None))
    /\ UNCHANGED <<readvars, policyvars, robotsvars, crawlvars, idxvars>>

\* ---------------------------------------------------------------------------
\* requests.Session / requests.get without safe_session: the connection
\* resolves the host name and dials one of the addresses
\* ---------------------------------------------------------------------------
InRobotsPhase == frame.pc \in {"robots_send", "robots_response"}

\* fetch_html after _robots_allows_url returned True: session.get(url)
ToUrl ==
    /\ frame' = [frame EXCEPT !.current_url = frame.url, !.redirects = 0,
                              !.pc = "plain_send"]
    /\ wire' = [wire EXCEPT !.hop = 0, !.validated = frame.url, !.request = NoRequest,
                            !.socket = NoSocket]
    /\ UNCHANGED result

\* what the running client does with an exception of its request
PlainRaise(exc) ==
    IF frame.op = "_fetch_with_redirects"
    THEN Return([Outcome(frame.op, NoneInt, <<>>, frame.current_url, exc)
                   EXCEPT !.chain = frame.redirects])
    ELSE IF frame.op = "fetch_html" /\ InRobotsPhase
    THEN \* _robots_allows_url: except Exception: return True
         ToUrl
    ELSE Return(Outcome(frame.op, NoneInt, <<>>, frame.url, exc))

PlainRequest ==
    /\ frame.op \in PlainClients /\ frame.pc \in {"plain_send", "robots_send"}
    /\ \E addr_info \in Lookups(frame.current_url) :
          IF addr_info = GaiError
          THEN PlainRaise("exception")
          ELSE /\ \E i \in 1..Len(addr_info) :
                     wire' = [wire EXCEPT
                         !.socket = [ip |-> addr_info[i], checked |-> NoIP,
                                     safe_session |-> FALSE],
                         !.request = [url |-> frame.current_url,
                                      validated |-> (wire.validated = frame.current_url)],
                         !.nsock = @ + 1,
                         !.nreq = @ + 1]
               /\ frame' = [frame EXCEPT !.pc = IF InRobotsPhase THEN "robots_response"
                                                ELSE "plain_response"]
               /\ UNCHANGED result
    /\ UNCHANGED <<readvars, policyvars, robotsvars, crawlvars, idxvars>>

\* Session.resolve_redirects under the redirect limit `limit`
AutoFollow(r, limit) ==
    IF frame.redirects >= limit
    THEN PlainRaise("too_many_redirects")
    ELSE Hop(urljoin(frame.current_url, r.location), frame.redirects + 1,
             IF InRobotsPhase THEN "robots_send" ELSE "plain_send")

\* resp.text: the whole body
RECURSIVE Flatten(_)
Flatten(chunks) == IF chunks = <<>> THEN <<>> ELSE Head(chunks) \o Flatten(Tail(chunks))
ResponseText(r) == Decode(Flatten(r.chunks), Codec(r.encoding))

\* ---------------------------------------------------------------------------
\* indexability_signals._fetch_with_redirects
\* ---------------------------------------------------------------------------
Start_fetch_with_redirects ==
    /\ \E u \in URLS : Call("_fetch_with_redirects", u, "plain_send", NoneInt)
    /\ UNCHANGED <<readvars, policyvars, robotsvars, crawlvars, idxvars>>

FwrOnResponse(r) ==
    IF r.status \in RedirectStatuses /\ r.location # NoLocation
    THEN LET next_url == urljoin(frame.current_url, r.location)
             chain == frame.redirects + 1
         IN  IF next_url \in frame.visited
             THEN Return([Outcome(frame.op, r.status, <<>>, next_url, None)
                            EXCEPT !.loop = TRUE, !.chain = chain])
             ELSE IF chain > MAX_HOPS - 1
             THEN Return([Outcome(frame.op, r.status, <<>>, next_url, None)
                            EXCEPT !.too_many = TRUE, !.chain = chain])
             ELSE /\ frame' = [frame EXCEPT !.visited = @ \cup {next_url},
                                            !.current_url = next_url,
                                            !.redirects = chain,
                                            !.pc = "plain_send"]
                  /\ wire' = [wire EXCEPT !.hop = chain, !.request = NoRequest,
                                          !.socket = NoSocket]
                  /\ UNCHANGED result
    ELSE Return([Outcome(frame.op, r.status, ResponseText(r), frame.current_url, None)
                   EXCEPT !.chain = frame.redirects])

FwrResponse ==
    /\ frame.op = "_fetch_with_redirects" /\ frame.pc = "plain_response"
    /\ \/ \E r \in Responses : FwrOnResponse(r)
       \/ PlainRaise("exception")
    /\ UNCHANGED <<readvars, policyvars, robotsvars, crawlvars, idxvars>>

\* ---------------------------------------------------------------------------
\* indexability_signals._fetch_url: requests.get(url)
\* ---------------------------------------------------------------------------
Start_fetch_url ==
    /\ \E u \in URLS : Call("_fetch_url", u, "plain_send", NoneInt)
    /\ UNCHANGED <<readvars, policyvars, robotsvars, crawlvars, idxvars>>

FetchUrlResponse ==
    /\ frame.op = "_fetch_url" /\ frame.pc = "plain_response"
    /\ \/ \E r \in Responses :
             IF IsRedirect(r) THEN AutoFollow(r, DEFAULT_REDIRECT_LIMIT)
             ELSE Return(Outcome(frame.op, r.status, ResponseText(r), frame.url, None))
       \/ PlainRaise("exception")
    /\ UNCHANGED <<readvars, policyvars, robotsvars, crawlvars, idxvars>>

\* ---------------------------------------------------------------------------
\* audit.fetch_html and audit._robots_allows_url
\* ---------------------------------------------------------------------------
RobotsUrl(u) == [scheme |-> u.scheme, host |-> u.host, path |-> "/robots.txt"]

Start_fetch_html ==
    /\ \E u \in URLS : Call("fetch_html", u, "validate", MAX_HTML_BYTES)
    /\ UNCHANGED <<readvars, policyvars, robotsvars, crawlvars, idxvars>>

\* validate_url(url), then ignore_robots() decides whether robots.txt is read
HtmlValidate ==
    /\ frame.op = "fetch_html" /\ frame.pc = "validate"
    /\ \E ip_list \in Lookups(frame.url), ignore_robots \in BOOLEAN :
          IF validate_url(frame.url, ip_list) # "ok"
          THEN Return(Outcome(frame.op, NoneInt, <<>>, frame.url, "ValueError"))
          ELSE /\ frame' = [frame EXCEPT
                     !.pc = IF ignore_robots THEN "plain_send" ELSE "robots_send",
                     !.current_url = IF ignore_robots THEN frame.url
                                     ELSE RobotsUrl(frame.url)]
               /\ wire' = [wire EXCEPT !.validated = frame.url]
               /\ UNCHANGED result
    /\ UNCHANGED <<readvars, policyvars, robotsvars, crawlvars, idxvars>>

\* the rest of _robots_allows_url; whether the parsed rules disallow the url
\* is the server's choice
HtmlRobotsResponse ==
    /\ frame.op = "fetch_html" /\ frame.pc = "robots_response"
    /\ \/ \E r \in Responses, disallowed \in BOOLEAN :
             IF IsRedirect(r) THEN AutoFollow(r, MAX_REDIRECTS)
             ELSE IF /\ r.status = 200
                     /\ ~read_limited_text(r, frame.max_bytes).too_large
                     /\ disallowed
             THEN Return(Outcome(frame.op, NoneInt, <<>>, frame.url, "robots_disallowed"))
             ELSE ToUrl
       \/ PlainRaise("exception")
    /\ UNCHANGED <<readvars, policyvars, robotsvars, crawlvars, idxvars>>

HtmlResponse ==
    /\ frame.op = "fetch_html" /\ frame.pc = "plain_response"
    /\ \/ \E r \in Responses :
             IF IsRedirect(r) THEN AutoFollow(r, MAX_REDIRECTS)
             ELSE LET read == read_limited_text(r, frame.max_bytes)
                  IN  IF read.too_large
                      THEN Return(Outcome(frame.op, r.status, <<>>, frame.url, "too_large"))
                      ELSE IF r.status >= 400
                      THEN Return(Outcome(frame.op, r.status, <<>>, frame.url, "HTTPError"))
                      ELSE Return(Outcome(frame.op, r.status, read.text, frame.url, None))
       \/ PlainRaise("exception")
    /\ UNCHANGED <<readvars, policyvars, robotsvars, crawlvars, idxvars>>

NextNet ==
    \/ Start_fetch
    \/ FetchValidate
    \/ SafeSendResolve
    \/ SafeGetConnection
    \/ SafeGetConnectionPool
    \/ SafeSendPool
    \/ SafeConnect
    \/ FetchResponse
    \/ Start_fetch_pages
    \/ PagesResponse
    \/ PlainRequest
    \/ Start_fetch_with_redirects
    \/ FwrResponse
    \/ Start_fetch_url
    \/ FetchUrlResponse
    \/ Start_fetch_html
    \/ HtmlValidate
    \/ HtmlRobotsResponse
    \/ HtmlResponse

\* no read_limited_text call is being looked at
NoReadOut == [text |-> <<>>, too_large |-> FALSE, chunks_read |-> 0, buffered |-> 0]
NoRead == [phase |-> "idle",
           resp |-> [content_length |-> [kind |-> "absent", n |-> 0], chunks |-> <<>>,
                     encoding |-> None],
           max_bytes |-> NoneInt, out |-> NoReadOut, fetch |-> NoResult]

\* no robots.txt, crawl or indexability evaluation is being looked at
NoRobots == [phase |-> "idle"]
NoCrawl == [phase |-> "idle"]
NoIdx == [phase |-> "idle"]

\* no client has been called, nothing is being read, no findings exist
Init ==
    /\ frame = IdleFrame
    /\ wire = NewWire
    /\ result = NoResult
    /\ rl = NoRead
    /\ findings = <<>>
    /\ findings_in = <<>>
    /\ napplied = 0
    /\ robots = NoRobots
    /\ crawl = NoCrawl
    /\ idx = NoIdx

SpecNet == Init /\ [][NextNet]_vars

\* ---------------------------------------------------------------------------
\* read_limited_text on its own: every response and cap within the bounds
\* ---------------------------------------------------------------------------
ReadResponses == [content_length : ContentLengths, chunks : ChunkSeqs,
                  encoding : Encodings]
ReadCaps == (0..MaxCap) \cup {NoneInt}

\* _fetch has its response and is about to call read_limited_text
InitReadCall ==
    /\ frame = IdleFrame
    /\ wire = NewWire
    /\ result = NoResult
    /\ rl \in [phase : {"called"}, resp : ReadResponses, max_bytes : ReadCaps,
                out : {NoReadOut}, fetch : {NoResult}]
    /\ findings = <<>>
    /\ findings_in = <<>>
    /\ napplied = 0
    /\ robots = NoRobots
    /\ crawl = NoCrawl
    /\ idx = NoIdx

\* text, too_large = read_limited_text(resp, max_bytes)
ReadLimitedText ==
    /\ rl.phase = "called"
    /\ rl' = [rl EXCEPT !.phase = "read",
                        !.out = read_limited_text(rl.resp, rl.max_bytes)]
    /\ UNCHANGED <<netvars, policyvars, robotsvars, crawlvars, idxvars>>

\* the two return statements of _fetch that follow
FetchReturn ==
    /\ rl.phase = "read"
    /\ rl' = [rl EXCEPT !.phase = "returned", !.fetch = FetchBody(200, rl.out, NoURL)]
    /\ UNCHANGED <<netvars, policyvars, robotsvars, crawlvars, idxvars>>

NextRead ==
    \/ ReadLimitedText
    \/ FetchReturn

SpecRead == InitReadCall /\ [][NextRead]_vars

\* ---------------------------------------------------------------------------
\* finding_policy
\* ---------------------------------------------------------------------------
ALLOWED_SEVERITIES == {"fail", "warning", "info"}
CONFIDENCE_LEVELS == {"high", "medium", "low"}
PROOF_COMPLETENESS == {"complete", "partial", "supporting"}

PolicyNote == "Severity downgraded from 'fail' to 'warning' by policy: FAIL requires high confidence and complete proof."

\* the dict appended to policy_actions
SeverityClamp(original, confidence, proof) ==
    [type |-> "severity_clamp", from |-> original, to |-> "warning",
     reason |-> "confidence_proof_gate", confidence_level |-> confidence,
     proof_completeness |-> proof]

\* (mutant: the gate lets a fail pass on high confidence or complete proof)
enforce_finding_policy_either(finding) ==
    LET confidence == IF finding.confidence_level = None THEN "medium"
                      ELSE finding.confidence_level
        proof == IF finding.proof_completeness = None THEN "partial"
                 ELSE finding.proof_completeness
        severity == IF finding.severity \notin ALLOWED_SEVERITIES THEN "info"
                    ELSE finding.severity
        defaulted == [finding EXCEPT !.confidence_level = confidence,
                                     !.proof_completeness = proof,
                                     !.severity = severity]
    IN  IF severity = "fail" /\ ~(confidence = "high" \/ proof = "complete")
        THEN [defaulted EXCEPT
                 !.severity = "warning",
                 !.policy_notes = Append(@, PolicyNote),
                 !.policy_actions = Append(@, SeverityClamp(severity, confidence, proof))]
        ELSE defaulted

\* (mutant: the note and the action are recorded whenever confidence and
\* proof fall short, whatever the severity)
enforce_finding_policy_renote(finding) ==
    LET confidence == IF finding.confidence_level = None THEN "medium"
                      ELSE finding.confidence_level
        proof == IF finding.proof_completeness = None THEN "partial"
                 ELSE finding.proof_completeness
        severity == IF finding.severity \notin ALLOWED_SEVERITIES THEN "info"
                    ELSE finding.severity
        defaulted == [finding EXCEPT !.confidence_level = confidence,
                                     !.proof_completeness = proof,
                                     !.severity = severity]
    IN  IF severity \in {"fail", "warning"} /\ ~(confidence = "high" /\ proof = "complete")
        THEN [defaulted EXCEPT
                 !.severity = "warning",
                 !.policy_notes = Append(@, PolicyNote),
                 !.policy_actions = Append(@, SeverityClamp(severity, confidence, proof))]
        ELSE defaulted

enforce_finding_policy(finding) ==
    LET confidence == IF finding.confidence_level = None THEN "medium"
                      ELSE finding.confidence_level
        proof == IF finding.proof_completeness = None THEN "partial"
                 ELSE finding.proof_completeness
        severity == IF finding.severity \notin ALLOWED_SEVERITIES THEN "info"
                    ELSE finding.severity
        defaulted == [finding EXCEPT !.confidence_level = confidence,
                                     !.proof_completeness = proof,
                                     !.severity = severity]
    IN  IF severity = "fail" /\ ~(confidence = "high" /\ proof = "complete")
        THEN [defaulted EXCEPT
                 !.severity = "warning",
                 !.policy_notes = Append(@, PolicyNote),
                 !.policy_actions = Append(@, SeverityClamp(severity, confidence, proof))]
        ELSE defaulted

\* (mutant: each finding is put in front of the ones already handled)
RECURSIVE enforce_policy_on_findings_prepend(_)
enforce_policy_on_findings_prepend(fs) ==
    IF fs = <<>> THEN <<>>
    ELSE enforce_policy_on_findings_prepend(Tail(fs)) \o <<enforce_finding_policy(Head(fs))>>

\* `for f in findings: out.append(enforce_finding_policy(f))`; every element
\* the callers pass is a dict
RECURSIVE enforce_policy_on_findings(_)
enforce_policy_on_findings(fs) ==
    IF fs = <<>> THEN <<>>
    ELSE <<enforce_finding_policy(Head(fs))>> \o enforce_policy_on_findings(Tail(fs))

\* A finding as its producer emits it: a severity, and a confidence level and
\* a proof completeness that may be unset; no policy trail yet
FindingsAt(i) ==
    [id : {i}, severity : ALLOWED_SEVERITIES,
     confidence_level : CONFIDENCE_LEVELS \cup {None},
     proof_completeness : PROOF_COMPLETENESS \cup {None},
     policy_notes : {<<>>}, policy_actions : {<<>>}]

\* the lists of n findings, the i-th with id i
RECURSIVE FindingLists(_)
FindingLists(n) ==
    IF n = 0 THEN {<<>>}
    ELSE {Append(fs, f) : fs \in FindingLists(n - 1), f \in FindingsAt(n)}

InitFindings ==
    /\ frame = IdleFrame
    /\ wire = NewWire
    /\ result = NoResult
    /\ rl = NoRead
    /\ findings \in UNION {FindingLists(n) : n \in 0..MaxFindings}
    /\ findings_in = findings
    /\ napplied = 0
    /\ robots = NoRobots
    /\ crawl = NoCrawl
    /\ idx = NoIdx

\* batch.py: findings = enforce_policy_on_findings(findings)
ApplyPolicy ==
    /\ napplied < MaxApply
    /\ findings' = enforce_policy_on_findings(findings)
    /\ napplied' = napplied + 1
    /\ UNCHANGED <<findings_in, netvars, readvars, robotsvars, crawlvars, idxvars>>

NextPolicy == ApplyPolicy

SpecPolicy == InitFindings /\ [][NextPolicy]_vars

\* ---------------------------------------------------------------------------
\* robots.txt: net_guardrails.parse_robots, robots_disallows and
\* crawl_v1._build_robots_policy.  A string is the sequence of its characters,
\* a robots.txt the sequence of its lines.
\* ---------------------------------------------------------------------------
RuleChars == {"/", "a", "*"}
PathChars == {"/", "a", "b"}
\* the value of a Disallow line, stripped: empty, a path pattern, or a word
RuleStrings ==
    {r \in SeqsUpTo(RuleChars, MaxRuleLen) : r = <<>> \/ r[1] = "/" \/ r = <<"a">>}
\* urlparse(url).path: empty or beginning with a slash
UrlPaths == {p \in SeqsUpTo(PathChars, MaxPathLen) : p = <<>> \/ p[1] = "/"}

\* a line after strip() and the removal of a comment: its field name as
\* written, and its value
UserAgentNames == {"*", "SCOPE", "Bot"}
RobotsLines ==
    [name : {"User-Agent"}, value : UserAgentNames, rule : {<<>>}]
    \cup [name : {"Disallow"}, value : {""}, rule : RuleStrings]
    \cup [name : {"Sitemap", ""}, value : {""}, rule : {<<>>}]
RobotsTexts == SeqsUpTo(RobotsLines, MaxLines)

\* str.lower() on the strings of the model
Lower(str) ==
    CASE str = "User-Agent" -> "user-agent"
      [] str = "Disallow" -> "disallow"
      [] str = "Sitemap" -> "sitemap"
      [] str = "SCOPE" -> "scope"
      [] str = "Bot" -> "bot"
      [] str = "Site" -> "site"
      [] str = "HTTPS" -> "https"
      [] str = "/A" -> "/a"
      [] OTHER -> str

\* ua_rules.setdefault(ua, [])
SetDefault(ua_rules, ua) ==
    IF ua \in DOMAIN ua_rules THEN ua_rules ELSE ua_rules @@ (ua :> <<>>)

\* for ua in current_uas: ua_rules.setdefault(ua, []).append(rule)
RECURSIVE AppendRule(_, _, _)
AppendRule(ua_rules, current_uas, rule) ==
    IF current_uas = <<>> THEN ua_rules
    ELSE LET ua == Head(current_uas)
             with_ua == SetDefault(ua_rules, ua)
         IN  AppendRule([with_ua EXCEPT ![ua] = Append(@, rule)], Tail(current_uas), rule)

\* the loop of parse_robots over the lines, from line i on
RECURSIVE ParseLoop(_, _, _, _)
ParseLoop(lines, i, ua_rules, current_uas) ==
    IF i > Len(lines) THEN ua_rules
    ELSE IF Lower(lines[i].name) = "user-agent"
    THEN LET ua == Lower(lines[i].value)
         IN  ParseLoop(lines, i + 1, SetDefault(ua_rules, ua), <<ua>>)
    ELSE IF Lower(lines[i].name) = "disallow"
    THEN LET uas == IF current_uas = <<>> THEN <<"*">> ELSE current_uas
         IN  ParseLoop(lines, i + 1, AppendRule(ua_rules, uas, lines[i].rule), uas)
    ELSE ParseLoop(lines, i + 1, ua_rules, current_uas)

\* the empty dict
NoRules == [ua \in {} |-> <<>>]
parse_robots(text) == ParseLoop(text, 1, NoRules, <<>>)

\* ua_rules.get(ua, []) or []
RulesOf(ua_rules, ua) == IF ua \in DOMAIN ua_rules THEN ua_rules[ua] ELSE <<>>

\* str.startswith
StartsWith(str, prefix) ==
    Len(prefix) <= Len(str) /\ SubSeq(str, 1, Len(prefix)) = prefix

\* the (disallowed, rule) pair; no rule is the empty rule
Verdict(disallowed, rule) == [disallowed |-> disallowed, rule |-> rule]

\* (mutant: a rule blocks only the path equal to it)
RECURSIVE DisallowLoop_exact(_, _, _)
DisallowLoop_exact(rules, i, path) ==
    IF i > Len(rules) THEN Verdict(FALSE, <<>>)
    ELSE IF rules[i] = <<>> THEN DisallowLoop_exact(rules, i + 1, path)
    ELSE IF rules[i] = <<"/">> THEN Verdict(TRUE, rules[i])
    ELSE IF rules[i][1] = "/" /\ path = rules[i] THEN Verdict(TRUE, rules[i])
    ELSE DisallowLoop_exact(rules, i + 1, path)

\* `for rule in rules` of robots_disallows, from rule i on
RECURSIVE DisallowLoop(_, _, _)
DisallowLoop(rules, i, path) ==
    IF i > Len(rules) THEN Verdict(FALSE, <<>>)
    ELSE IF rules[i] = <<>> THEN DisallowLoop(rules, i + 1, path)
    ELSE IF rules[i] = <<"/">> THEN Verdict(TRUE, rules[i])
    ELSE IF rules[i][1] = "/" /\ StartsWith(path, rules[i]) THEN Verdict(TRUE, rules[i])
    ELSE DisallowLoop(rules, i + 1, path)

\* url_path is urlparse(url).path
robots_disallows(url_path, ua_rules) ==
    LET path == IF url_path = <<>> THEN <<"/">> ELSE url_path
        rules == RulesOf(ua_rules, "*") \o RulesOf(ua_rules, "scope")
    IN  DisallowLoop(rules, 1, path)

\* what _fetch(robots_url) may return when the server holds `text`
RobotsFetches(text) ==
    {Outcome("_fetch", 200, text, NoURL, None),
     Outcome("_fetch", 404, text, NoURL, None),
     Outcome("_fetch", 200, <<>>, NoURL, "too_large"),
     Outcome("_fetch", NoneInt, <<>>, NoURL, "fetch_error"),
     Outcome("_fetch", NoneInt, <<>>, NoURL, "invalid_url")}

NoPolicy == [policy |-> "", reason |-> "", ignored |-> FALSE, http_status |-> NoneInt,
             error |-> None, rules |-> NoRules, body |-> <<>>]

\* _build_robots_policy after `if not robots_url`: ignore_robots() and the
\* result of _fetch decide
BuildPolicy(ignore, fetched) ==
    LET has_body == fetched.status = 200 /\ fetched.body # <<>>
        rules == IF has_body THEN parse_robots(fetched.body) ELSE NoRules
    IN  IF ignore
        THEN [policy |-> "ignore", reason |-> "robots_ignored", ignored |-> TRUE,
              http_status |-> fetched.status, error |-> fetched.error,
              rules |-> rules, body |-> fetched.body]
        ELSE [policy |-> "allow", reason |-> "robots_unreachable_allow",
              ignored |-> FALSE, http_status |-> fetched.status,
              error |-> fetched.error, rules |-> rules,
              body |-> IF has_body THEN fetched.body ELSE <<>>]

\* crawl_v1._robots_allows
robots_allows(url_path, policy) ==
    IF policy.ignored THEN TRUE
    ELSE IF policy.policy = "allow" /\ policy.reason = "robots_unreachable_allow" THEN TRUE
    ELSE ~robots_disallows(url_path, policy.rules).disallowed

\* a robots.txt as the server holds it; nothing parsed or decided yet
InitRobots ==
    /\ frame = IdleFrame
    /\ wire = NewWire
    /\ result = NoResult
    /\ rl = NoRead
    /\ findings = <<>>
    /\ findings_in = <<>>
    /\ napplied = 0
    /\ robots \in [phase : {"text"}, text : RobotsTexts, rules : {NoRules},
                    path : {<<>>}, verdict : {Verdict(FALSE, <<>>)},
                    site_root : {""}, ignore : {FALSE}, fetched : {NoResult},
                    policy : {NoPolicy}]
    /\ crawl = NoCrawl
    /\ idx = NoIdx

\* rules = parse_robots(text)
ParseRobots ==
    /\ robots.phase = "text"
    /\ robots' = [robots EXCEPT !.phase = "parsed", !.rules = parse_robots(robots.text)]
    /\ UNCHANGED <<netvars, readvars, policyvars, crawlvars, idxvars>>

\* robots_disallows(url, rules)
RobotsDisallows ==
    /\ robots.phase = "parsed"
    /\ \E url_path \in UrlPaths :
          robots' = [robots EXCEPT !.phase = "checked", !.path = url_path,
                                   !.verdict = robots_disallows(url_path, robots.rules)]
    /\ UNCHANGED <<netvars, readvars, policyvars, crawlvars, idxvars>>

\* _build_robots_policy(site_root) against a server holding the text
BuildRobotsPolicy ==
    /\ robots.phase = "text"
    /\ \E site_root \in {"", "https://site"}, ignore \in BOOLEAN :
          IF site_root = ""
          THEN robots' = [robots EXCEPT
                   !.phase = "policy", !.site_root = site_root, !.ignore = ignore,
                   !.policy = [NoPolicy EXCEPT !.policy = "allow",
                                               !.reason = "robots_missing_base"]]
          ELSE \E fetched \in RobotsFetches(robots.text) :
                  robots' = [robots EXCEPT
                      !.phase = "policy", !.site_root = site_root, !.ignore = ignore,
                      !.fetched = fetched, !.policy = BuildPolicy(ignore, fetched)]
    /\ UNCHANGED <<netvars, readvars, policyvars, crawlvars, idxvars>>

NextRobots ==
    \/ ParseRobots
    \/ RobotsDisallows
    \/ BuildRobotsPolicy

SpecRobots == InitRobots /\ [][NextRobots]_vars

\* ---------------------------------------------------------------------------
\* crawl_v1.select_urls.  A page url is written as its parts, as given.
\* ---------------------------------------------------------------------------
PageUrl(scheme, host, path, fragment) ==
    [scheme |-> scheme, host |-> host, path |-> path, query |-> "", fragment |-> fragment]
\* the empty string and None
NoPageUrl == PageUrl("", "", "", "")

\* the urls a discovered list is made of
SelectUrlSet ==
    {PageUrl("https", "site", "/a", ""), PageUrl("https", "Site", "/a", ""),
     PageUrl("HTTPS", "site", "/a", ""), PageUrl("https", "site", "/a/", ""),
     PageUrl("https", "site", "/A", ""), PageUrl("https", "site", "/", ""),
     PageUrl("https", "site", "", ""), PageUrl("ftp", "site", "/a", ""),
     PageUrl("https", "site", "/a", "top")}
\* the site_root arguments: None, and a url with an upper-case host
SiteRoots == {NoPageUrl, PageUrl("https", "Site", "", "")}

\* urlparse(url).scheme: urlparse lower-cases the scheme
ParsedScheme(url) == Lower(url.scheme)

\* os.path.splitext(path.lower())[1] on the paths of the model
Ext(path) == IF path = "/a.png" THEN ".png" ELSE ""
\* _is_html_candidate: no known page path has an asset extension
is_html_candidate(url) == Ext(Lower(url.path)) = ""

\* select_urls.is_analyzable
is_analyzable(url) ==
    /\ url # NoPageUrl
    /\ url.path # "/cdn-cgi/a"
    /\ ParsedScheme(url) \in {"http", "https"}
    /\ url.host # ""
    /\ url.fragment = ""
    /\ is_html_candidate(url)

\* select_urls.canonical_homepage: "" or scheme://netloc/
canonical_homepage(value) ==
    IF value = NoPageUrl THEN NoPageUrl
    ELSE IF ParsedScheme(value) \notin {"http", "https"} THEN NoPageUrl
    ELSE IF value.host = "" THEN NoPageUrl
    ELSE PageUrl(ParsedScheme(value), value.host, "/", "")

\* path.rstrip("/") on the paths of the model
RstripSlash(path) ==
    CASE path = "/a/" -> "/a"
      [] path = "/" -> ""
      [] OTHER -> path

\* (mutant: the key keeps the host as written)
canonicalize_for_dedupe_hostcase(url) ==
    LET path == IF url.path = "" THEN "/" ELSE url.path
        stripped == IF path # "/" THEN RstripSlash(path) ELSE path
    IN  [scheme |-> Lower(ParsedScheme(url)), host |-> url.host,
         path |-> IF stripped = "" THEN "/" ELSE stripped, query |-> url.query]

\* select_urls.canonicalize_for_dedupe: the parts of scheme://host/path?query
canonicalize_for_dedupe(url) ==
    LET path == IF url.path = "" THEN "/" ELSE url.path
        stripped == IF path # "/" THEN RstripSlash(path) ELSE path
    IN  [scheme |-> Lower(ParsedScheme(url)), host |-> Lower(url.host),
         path |-> IF stripped = "" THEN "/" ELSE stripped, query |-> url.query]

\* select_urls.add_url: the selected list after url is offered to it
add_url(selected, url) ==
    IF ~is_analyzable(url) THEN selected
    ELSE IF \E k \in 1..Len(selected) :
               canonicalize_for_dedupe(selected[k]) = canonicalize_for_dedupe(url)
    THEN selected
    ELSE Append(selected, url)

\* `for url in discovered_urls`, from url i on
RECURSIVE SelectLoop(_, _, _, _)
SelectLoop(discovered_urls, i, selected, max_pages) ==
    IF i > Len(discovered_urls) THEN selected
    ELSE IF Len(selected) >= max_pages THEN selected
    ELSE SelectLoop(discovered_urls, i + 1, add_url(selected, discovered_urls[i]),
                    max_pages)

Min(a, b) == IF a <= b THEN a ELSE b

\* max_pages = min(int(max_pages or TARGET_ANALYZED), hard_cap_analyzed)
EffectiveMaxPages(max_pages, hard_cap_analyzed) ==
    Min(IF max_pages = 0 THEN TARGET_ANALYZED ELSE max_pages, hard_cap_analyzed)

select_urls(discovered_urls, max_pages, hard_cap_analyzed, site_root) ==
    LET limit == EffectiveMaxPages(max_pages, hard_cap_analyzed)
        homepage == canonical_homepage(site_root)
        seeded == IF homepage # NoPageUrl THEN add_url(<<>>, homepage) ELSE <<>>
        selected == SelectLoop(discovered_urls, 1, seeded, limit)
    IN  IF limit <= 0 THEN <<>>
        ELSE SubSeq(selected, 1, Min(Len(selected), limit))

\* the arguments of one select_urls call
InitSelect ==
    /\ frame = IdleFrame
    /\ wire = NewWire
    /\ result = NoResult
    /\ rl = NoRead
    /\ findings = <<>>
    /\ findings_in = <<>>
    /\ napplied = 0
    /\ robots = NoRobots
    /\ crawl \in [phase : {"called"}, discovered_urls : SeqsUpTo(SelectUrlSet, MaxUrls),
                   max_pages : 0..MaxPages,
                   hard_cap_analyzed : {0, 1, HARD_CAP_ANALYZED},
                   site_root : SiteRoots, selected : {<<>>}]
    /\ idx = NoIdx

\* analyzed_urls = select_urls(discovered_urls, max_pages, caps, site_root)
SelectUrls ==
    /\ crawl.phase = "called"
    /\ crawl' = [crawl EXCEPT
           !.phase = "selected",
           !.selected = select_urls(crawl.discovered_urls, crawl.max_pages,
                                    crawl.hard_cap_analyzed, crawl.site_root)]
    /\ UNCHANGED <<netvars, readvars, policyvars, robotsvars, idxvars>>

NextSelect == SelectUrls

SpecSelect == InitSelect /\ [][NextSelect]_vars

\* ---------------------------------------------------------------------------
\* crawl_v1._discover_urls_with_sources and the render fallback of crawl_site.
\* A link is written as what it points at: page n of the site, an asset, a
\* /cdn-cgi/ path, a page of another host, or a mailto link; frag tells whether
\* it carries a #fragment.
\* ---------------------------------------------------------------------------
Link(kind, n, frag) == [kind |-> kind, n |-> n, frag |-> frag]
Url(kind, n) == [kind |-> kind, n |-> n]
NoUrl == Url("", 0)
PageLink(n) == Link("page", n, FALSE)

\* _normalize_url: "" for a scheme other than http(s); the fragment is dropped
normalize_url(raw) ==
    IF raw.kind = "mailto" THEN NoUrl ELSE Url(raw.kind, raw.n)
same_host(url) == url # NoUrl /\ url.kind # "offhost"
is_cdn_cgi(url) == url.kind = "cdn"
is_html_candidate_url(url) == url.kind # "asset"

\* n links to the pages lo, lo + 1, ...
FreshLinks(lo, n) == [k \in 1..n |-> PageLink(lo + k - 1)]
\* links with a repeat, a fragment variant, the homepage, and links dropped
SmallLinks ==
    <<PageLink(1), Link("page", 1, TRUE), PageLink(0), Link("mailto", 0, FALSE),
      Link("offhost", 5, FALSE), Link("cdn", 6, FALSE), Link("asset", 7, FALSE),
      PageLink(2), PageLink(1)>>
\* the link lists a sitemap or a page can hold
LinkBatches ==
    {SmallLinks, FreshLinks(1, HARD_CAP_DISCOVERED - 2),
     FreshLinks(HARD_CAP_DISCOVERED - 10, 20),
     FreshLinks(HARD_CAP_DISCOVERED + 1, HARD_CAP_DISCOVERED + 1)}

\* discovered, seen and queue while links are added
Lists(discovered, seen, queue) ==
    [discovered |-> discovered, seen |-> seen, queue |-> queue]

\* the urls of a list that have not occurred earlier in it, in order
RECURSIVE FirstOccurrences(_)
FirstOccurrences(urls) ==
    IF Len(urls) <= 1 THEN urls
    ELSE LET mid == Len(urls) \div 2
             left == FirstOccurrences(SubSeq(urls, 1, mid))
             right == FirstOccurrences(SubSeq(urls, mid + 1, Len(urls)))
             inleft == {left[k] : k \in 1..Len(left)}
         IN  left \o SelectSeq(right, LAMBDA u : u \notin inleft)

\* (mutant: the filter without the test `normalized in seen`)
PassesFilters_unseen(normalized, seen) ==
    /\ normalized # NoUrl
    /\ same_host(normalized)
    /\ ~is_cdn_cgi(normalized)
    /\ is_html_candidate_url(normalized)

\* the tests of one round that do not depend on the rounds before it
PassesFilters(normalized, seen) ==
    /\ normalized # NoUrl
    /\ same_host(normalized)
    /\ ~is_cdn_cgi(normalized)
    /\ is_html_candidate_url(normalized)
    /\ normalized \notin seen

\* the urls that the rounds of the loop would append if no cap stopped them:
\* each link is normalized and filtered, and `normalized in seen` drops those
\* in seen before the loop and those appended by an earlier round
Appendable(seen, links) ==
    LET normalized == [k \in 1..Len(links) |-> normalize_url(links[k])]
    IN  FirstOccurrences(SelectSeq(normalized, LAMBDA u : PassesFilters(u, seen)))

\* the room left below the hard cap
Room(discovered_urls) ==
    IF Len(discovered_urls) >= HARD_CAP_DISCOVERED THEN 0
    ELSE HARD_CAP_DISCOVERED - Len(discovered_urls)

\* (mutant: the loop without the hard-cap test)
AddLinks_nocap(st, links, enqueue) ==
    LET taken == Appendable(st.seen, links)
    IN  Lists(st.discovered \o taken,
              st.seen \cup {taken[k] : k \in 1..Len(taken)},
              IF enqueue THEN st.queue \o taken ELSE st.queue)

\* `for loc in urls` / `for a in soup.find_all("a")`: the loop leaves at the
\* break once len(discovered) is HARD_CAP_DISCOVERED, so it appends the first
\* HARD_CAP_DISCOVERED - len(discovered) appendable urls
AddLinks(st, links, enqueue) ==
    LET new == Appendable(st.seen, links)
        taken == SubSeq(new, 1, Min(Len(new), Room(st.discovered)))
    IN  Lists(st.discovered \o taken,
              st.seen \cup {taken[k] : k \in 1..Len(taken)},
              IF enqueue THEN st.queue \o taken ELSE st.queue)

\* the sitemap urls: 1 and 2 are sitemap.xml and sitemap_index.xml, 3 is one
\* that robots.txt or a sitemap index names
DeclaredSitemaps == {<<1, 2>>, <<3>>, <<3, 3>>}
\* what _fetch and _parse_sitemap_xml give for a sitemap
SitemapAnswers ==
    {[kind |-> "error", urls |-> <<>>, children |-> <<>>],
     [kind |-> "sitemapindex", urls |-> <<>>, children |-> <<1, 3>>]}
    \cup {[kind |-> "urlset", urls |-> links, children |-> <<>>] : links \in LinkBatches}

\* the site_root arguments: a page of the site, and a /cdn-cgi/ url
HomepageUrls == {Url("page", 0), Url("cdn", 0)}

\* _discover_urls_with_sources is entered
InitDiscover ==
    /\ frame = IdleFrame
    /\ wire = NewWire
    /\ result = NoResult
    /\ rl = NoRead
    /\ findings = <<>>
    /\ findings_in = <<>>
    /\ napplied = 0
    /\ robots = NoRobots
    /\ crawl \in [phase : {"start"}, homepage : HomepageUrls,
                   discovered : {<<>>}, seen : {{}}, sitemap_queue : {<<>>},
                   fetched_sitemaps : {{}}, queue : {<<>>}, bfs_rounds : {0}]
    /\ idx = NoIdx

\* the homepage seed, the robots policy and the declared sitemaps
DiscoverSeed ==
    /\ crawl.phase = "start"
    /\ \E declared_sitemaps \in DeclaredSitemaps :
           crawl' = [crawl EXCEPT
               !.phase = "sitemaps",
               !.discovered = IF is_cdn_cgi(crawl.homepage) THEN <<>> ELSE <<crawl.homepage>>,
               !.seen = IF is_cdn_cgi(crawl.homepage) THEN {} ELSE {crawl.homepage},
               !.sitemap_queue = declared_sitemaps]
    /\ UNCHANGED <<netvars, readvars, policyvars, robotsvars, idxvars>>

\* one round of `while sitemap_queue and len(discovered) < HARD_CAP_DISCOVERED`
SitemapFetch ==
    /\ crawl.phase = "sitemaps"
    /\ crawl.sitemap_queue # <<>>
    /\ Len(crawl.discovered) < HARD_CAP_DISCOVERED
    /\ LET sm_url == Head(crawl.sitemap_queue)
           rest == Tail(crawl.sitemap_queue)
       IN  IF sm_url \in crawl.fetched_sitemaps
           THEN crawl' = [crawl EXCEPT !.sitemap_queue = rest]
           ELSE \E answer \in SitemapAnswers :
                    LET st == AddLinks(Lists(crawl.discovered, crawl.seen, crawl.queue),
                                       answer.urls, FALSE)
                    IN  crawl' = [crawl EXCEPT
                            !.fetched_sitemaps = @ \cup {sm_url},
                            !.sitemap_queue = rest \o answer.children,
                            !.discovered = st.discovered,
                            !.seen = st.seen]
    /\ UNCHANGED <<netvars, readvars, policyvars, robotsvars, idxvars>>

\* the sitemap loop ends; queue = deque([homepage])
SitemapsDone ==
    /\ crawl.phase = "sitemaps"
    /\ crawl.sitemap_queue = <<>> \/ Len(crawl.discovered) >= HARD_CAP_DISCOVERED
    /\ crawl' = [crawl EXCEPT !.phase = "bfs", !.queue = <<crawl.homepage>>]
    /\ UNCHANGED <<netvars, readvars, policyvars, robotsvars, idxvars>>

\* one round of `while queue and len(discovered) < HARD_CAP_DISCOVERED`: the
\* page is disallowed, or its fetch fails, or it answers with links
BfsFetch ==
    /\ crawl.phase = "bfs"
    /\ crawl.queue # <<>>
    /\ Len(crawl.discovered) < HARD_CAP_DISCOVERED
    /\ crawl.bfs_rounds < MaxBfsRounds
    /\ \/ crawl' = [crawl EXCEPT !.bfs_rounds = @ + 1, !.queue = Tail(@)]
       \/ \E links \in LinkBatches \cup {<<>>} :
              LET st == AddLinks(Lists(crawl.discovered, crawl.seen, Tail(crawl.queue)),
                                 links, TRUE)
              IN  crawl' = [crawl EXCEPT
                      !.bfs_rounds = @ + 1,
                      !.queue = st.queue,
                      !.discovered = st.discovered,
                      !.seen = st.seen]
    /\ UNCHANGED <<netvars, readvars, policyvars, robotsvars, idxvars>>

\* the remaining rounds when every page left is disallowed or fails to answer
BfsUnanswered ==
    /\ crawl.phase = "bfs"
    /\ crawl.queue # <<>>
    /\ Len(crawl.discovered) < HARD_CAP_DISCOVERED
    /\ crawl.bfs_rounds >= MaxBfsRounds
    /\ crawl' = [crawl EXCEPT !.queue = <<>>]
    /\ UNCHANGED <<netvars, readvars, policyvars, robotsvars, idxvars>>

\* the loop ends; return discovered, sources, robots_policy
DiscoverReturn ==
    /\ crawl.phase = "bfs"
    /\ crawl.queue = <<>> \/ Len(crawl.discovered) >= HARD_CAP_DISCOVERED
    /\ crawl' = [crawl EXCEPT !.phase = "discovered"]
    /\ UNCHANGED <<netvars, readvars, policyvars, robotsvars, idxvars>>

\* the candidate lists the rendered homepage, or its plain html, can give
CandidateBatches ==
    {<<>>, SmallLinks, FreshLinks(HARD_CAP_DISCOVERED - 5, 60),
     FreshLinks(3 * HARD_CAP_DISCOVERED, 60)}
fallback_threshold == 5
\* `[:50]` in crawl_site
MaxCandidates == 50

\* _playwright_discover: the urls add_urls keeps of the candidates, each once
add_urls(candidates) ==
    LET normalized == [k \in 1..Len(candidates) |-> normalize_url(candidates[k])]
    IN  FirstOccurrences(SelectSeq(normalized,
            LAMBDA u : /\ u # NoUrl
                       /\ ~is_cdn_cgi(u)
                       /\ same_host(u)
                       /\ is_html_candidate_url(u)))

\* crawl_site: html_candidates from html_hrefs, each once
HtmlCandidates(html_hrefs) ==
    LET normalized == [k \in 1..Len(html_hrefs) |-> normalize_url(html_hrefs[k])]
    IN  FirstOccurrences(SelectSeq(normalized,
            LAMBDA u : /\ u # NoUrl
                       /\ same_host(u)
                       /\ is_html_candidate_url(u)))

\* sorted(urls)[:50]; pages are numbered in the order of their url strings
KindRank(kind) == IF kind = "cdn" THEN 0 ELSE 1
UrlBefore(a, b) ==
    KindRank(a.kind) < KindRank(b.kind) \/ (KindRank(a.kind) = KindRank(b.kind) /\ a.n < b.n)
SortedHead(urls) ==
    LET sorted == SortSeq(urls, UrlBefore)
    IN  SubSeq(sorted, 1, Min(Len(sorted), MaxCandidates))

\* `for url in new_candidates`: appends until the break at the hard cap
MergeNew(discovered_urls, new_candidates) ==
    discovered_urls
        \o SubSeq(new_candidates, 1, Min(Len(new_candidates), Room(discovered_urls)))

\* `for url in sorted(html_candidates)[:50]`: skips the urls in already and
\* appends the others until the break at the hard cap
MergeHtml(discovered_urls, candidates) ==
    LET already == {discovered_urls[k] : k \in 1..Len(discovered_urls)}
    IN  MergeNew(discovered_urls, SelectSeq(candidates, LAMBDA u : u \notin already))

\* discovered_urls after sorted_candidates, the urls the rendered homepage
\* gave, are merged in
MergeExtra(discovered_urls, sorted_candidates) ==
    LET already == {discovered_urls[k] : k \in 1..Len(discovered_urls)}
        new_candidates == SelectSeq(sorted_candidates, LAMBDA u : u \notin already)
    IN  MergeNew(discovered_urls, new_candidates)

\* the arguments analysis_mode of crawl_site, normalised
AnalysisModes == {"standard", "extended"}

\* crawl_site after discovery: the pages are selected and fetched, and in
\* extended mode with fewer than fallback_threshold html pages the urls of the
\* rendered homepage are merged in unless the browser fails; when they add
\* nothing, the links of the homepage's plain html are merged in
RenderFallback ==
    /\ crawl.phase = "discovered"
    /\ \E mode \in AnalysisModes, analyzed_html_count \in {0, fallback_threshold} :
           /\ analyzed_html_count <= Len(crawl.discovered) + 1
           /\ IF mode = "extended" /\ analyzed_html_count < fallback_threshold
              THEN \/ crawl' = [crawl EXCEPT !.phase = "returned"]
                   \/ \E candidates \in CandidateBatches :
                          LET merged == MergeExtra(crawl.discovered,
                                                   SortedHead(add_urls(candidates)))
                          IN  IF Len(merged) > Len(crawl.discovered)
                              THEN crawl' = [crawl EXCEPT !.phase = "returned",
                                                          !.discovered = merged]
                              ELSE \E html_hrefs \in CandidateBatches :
                                       crawl' = [crawl EXCEPT
                                           !.phase = "returned",
                                           !.discovered =
                                               MergeHtml(crawl.discovered,
                                                   SortedHead(HtmlCandidates(html_hrefs)))]
              ELSE crawl' = [crawl EXCEPT !.phase = "returned"]
    /\ UNCHANGED <<netvars, readvars, policyvars, robotsvars, idxvars>>

NextDiscover ==
    \/ DiscoverSeed
    \/ SitemapFetch
    \/ SitemapsDone
    \/ BfsFetch
    \/ BfsUnanswered
    \/ DiscoverReturn
    \/ RenderFallback

SpecDiscover == InitDiscover /\ [][NextDiscover]_vars

\* ---------------------------------------------------------------------------
\* crawl_v1.crawl_site after discovery: select_urls, fetch_pages, and the
\* re-selection and page merge of the render fallback.
\* ---------------------------------------------------------------------------
\* urls as discovery leaves them: host in lower case, a path, no fragment
NormalizedUrls ==
    {PageUrl("https", "site", "/", ""), PageUrl("https", "site", "/a", ""),
     PageUrl("https", "site", "/a/", ""), PageUrl("https", "site", "/A", "")}
\* the urls crawl_site is called with: the site's root, and a page of it
CrawlRoots == {PageUrl("https", "site", "", ""), PageUrl("https", "site", "/a", "")}
\* homepage = _normalize_url(site_root, site_root)
SeedUrl(site_root) ==
    PageUrl(ParsedScheme(site_root), Lower(site_root.host),
            IF site_root.path = "" THEN "/" ELSE site_root.path, "")

\* lists without repeats that begin with the homepage seed
DiscoveredLists(site_root) ==
    {urls \in SeqsUpTo(NormalizedUrls, MaxCrawlUrls) :
        /\ Len(urls) >= 1
        /\ urls[1] = SeedUrl(site_root)
        /\ \A i, j \in 1..Len(urls) : i # j => urls[i] # urls[j]}

\* what happens when fetch_pages requests a url
FetchEvents ==
    {"html", "non_html", "too_large", "too_many_redirects", "invalid_url", "exception"}
\* the events after which no page was fetched
FailedEvents == {"too_large", "too_many_redirects", "invalid_url", "exception"}

\* a page dict; fetch is not a key of it but notes what happened on the wire
Page(url, status, error, fetch) ==
    [url |-> url, status |-> status, error |-> error, fetch |-> fetch]

\* the url's path as robots_disallows reads it
CharsOfPath(path) ==
    CASE path = "/a" -> <<"/", "a">>
      [] path = "/a/" -> <<"/", "a", "/">>
      [] path = "/A" -> <<"/", "A">>
      [] path = "/" -> <<"/">>
      [] OTHER -> <<>>

\* robots.txt with Disallow: / for every user agent
DisallowAllText ==
    <<[name |-> "User-Agent", value |-> "*", rule |-> <<>>],
      [name |-> "Disallow", value |-> "", rule |-> <<"/">>]>>
\* the policies _build_robots_policy hands to crawl_site
CrawlPolicies ==
    {BuildPolicy(FALSE, Outcome("_fetch", 200, DisallowAllText, NoURL, None)),
     BuildPolicy(FALSE, Outcome("_fetch", NoneInt, <<>>, NoURL, "fetch_error"))}

\* one round of fetch_pages for a url the wire answers with event
fetch_page(url, policy, event) ==
    IF ~robots_allows(CharsOfPath(url.path), policy)
    THEN Page(url, NoneInt, "robots_disallowed", "none")
    ELSE CASE event = "non_html" -> Page(url, 200, "non_html", event)
           [] event = "too_large" -> Page(url, 200, "too_large", event)
           [] event = "too_many_redirects" -> Page(url, NoneInt, "too_many_redirects", event)
           [] event = "invalid_url" -> Page(url, NoneInt, "invalid_url", event)
           [] event = "exception" -> Page(url, NoneInt, None, event)
           [] OTHER -> Page(url, 200, None, event)

\* fetch_pages(urls, robots_policy) when the wire answers url i with events[i];
\* a url with /cdn-cgi/ gets no page
fetch_pages(urls, policy, events) ==
    LET kept == {i \in 1..Len(urls) : urls[i].path # "/cdn-cgi/a"}
        all == [i \in 1..Len(urls) |-> fetch_page(urls[i], policy, events[i])]
    IN  IF kept = 1..Len(urls) THEN all
        ELSE SelectSeq(all, LAMBDA page : page.url.path # "/cdn-cgi/a")

is_html_page(page) == page.error = None
count_analyzed_html(pages) == Cardinality({i \in 1..Len(pages) : is_html_page(pages[i])})

\* _merge_pages from new page i on
RECURSIVE merge_pages(_, _, _)
merge_pages(out, new_pages, i) ==
    IF i > Len(new_pages) THEN out
    ELSE LET page == new_pages[i]
             at == {k \in 1..Len(out) : out[k].url = page.url}
         IN  IF at = {} THEN merge_pages(Append(out, page), new_pages, i + 1)
             ELSE LET k == CHOOSE k \in at : \A l \in at : l <= k
                  IN  IF is_html_page(out[k]) \/ ~is_html_page(page)
                      THEN merge_pages(out, new_pages, i + 1)
                      ELSE merge_pages([out EXCEPT ![k] = page], new_pages, i + 1)

\* sorted(urls)[:50] for page urls: "/" < "/A" < "/a" < "/a/" as strings
PathRank(path) ==
    CASE path = "/" -> 1
      [] path = "/A" -> 2
      [] path = "/a" -> 3
      [] OTHER -> 4
SortedPageUrls(urls) ==
    LET sorted == SortSeq(urls, LAMBDA a, b : PathRank(a.path) < PathRank(b.path))
    IN  SubSeq(sorted, 1, Min(Len(sorted), MaxCandidates))
\* the candidate lists of the rendered homepage and of its plain html
CrawlCandidates ==
    {<<>>, <<PageUrl("https", "site", "/a", "")>>,
     <<PageUrl("https", "site", "/a/", ""), PageUrl("https", "site", "/A", "")>>}

\* what str(exc) can be when the browser is missing or raises: a message, or
\* the empty string of an exception raised without arguments
BrowserMessages == {"", "browser_error"}
\* _playwright_discover's third result: whether an exception was caught, and
\* error
Browser(raised, error) == [raised |-> raised, error |-> error]
NoBrowser == Browser(FALSE, "")
\* `if mode == "extended" and analyzed_html_count < fallback_threshold and site_root`
fallback_entered(mode, analyzed_html_count) ==
    mode = "extended" /\ analyzed_html_count < fallback_threshold
\* "playwright_reason": playwright_reason or None
ReasonOrNone(playwright_reason) ==
    IF playwright_reason = "" THEN None ELSE playwright_reason

\* crawl_site has the discovered urls and the robots policy
InitCrawl ==
    /\ frame = IdleFrame
    /\ wire = NewWire
    /\ result = NoResult
    /\ rl = NoRead
    /\ findings = <<>>
    /\ findings_in = <<>>
    /\ napplied = 0
    /\ robots = NoRobots
    /\ \E site_root \in CrawlRoots :
           crawl \in [phase : {"discovered"}, site_root : {site_root},
                      discovered_urls : DiscoveredLists(site_root),
                      robots_policy : CrawlPolicies,
                      max_pages : {1, TARGET_ANALYZED}, mode : AnalysisModes,
                      analyzed_urls : {<<>>}, pages : {<<>>}, analyzed_count : {0},
                      browser : {NoBrowser}, used_playwright : {FALSE},
                      playwright_reason : {""}]
    /\ idx = NoIdx

\* analyzed_urls = select_urls(...); pages = fetch_pages(analyzed_urls, robots_policy)
SelectAndFetch ==
    /\ crawl.phase = "discovered"
    /\ LET analyzed_urls == select_urls(crawl.discovered_urls, crawl.max_pages,
                                        HARD_CAP_ANALYZED, crawl.site_root)
       IN  \E events \in [1..Len(analyzed_urls) -> FetchEvents] :
               LET pages == fetch_pages(analyzed_urls, crawl.robots_policy, events)
               IN  crawl' = [crawl EXCEPT
                       !.phase = "fetched",
                       !.analyzed_urls = analyzed_urls,
                       !.pages = pages,
                       !.analyzed_count = count_analyzed_html(pages)]
    /\ UNCHANGED <<netvars, readvars, policyvars, robotsvars, idxvars>>

\* the render fallback is not entered: crawl_site returns
CrawlReturn ==
    /\ crawl.phase = "fetched"
    /\ ~fallback_entered(crawl.mode, crawl.analyzed_count)
    /\ crawl' = [crawl EXCEPT !.phase = "returned"]
    /\ UNCHANGED <<netvars, readvars, policyvars, robotsvars, idxvars>>

\* the render fallback with `if error`: _playwright_discover caught an
\* exception whose str is not empty; crawl_site returns with the reason
CrawlBrowserError ==
    /\ crawl.phase = "fetched"
    /\ fallback_entered(crawl.mode, crawl.analyzed_count)
    /\ \E error \in BrowserMessages \ {""} :
           crawl' = [crawl EXCEPT !.phase = "returned",
                                  !.browser = Browser(TRUE, error),
                                  !.used_playwright = FALSE,
                                  !.playwright_reason = error]
    /\ UNCHANGED <<netvars, readvars, policyvars, robotsvars, idxvars>>

\* the render fallback with an empty error, which the browser leaves when it
\* ran and when it raised an exception whose str is empty: the candidates
\* (after an exception those collected before it) are merged into
\* discovered_urls, the pages are selected again, the new ones fetched and
\* merged; then crawl_site returns
CrawlFallback ==
    /\ crawl.phase = "fetched"
    /\ fallback_entered(crawl.mode, crawl.analyzed_count)
    /\ \E raised \in BOOLEAN, extra_urls \in CrawlCandidates,
          html_candidates \in CrawlCandidates :
           LET merged == MergeExtra(crawl.discovered_urls, SortedPageUrls(extra_urls))
               discovered_urls ==
                   IF Len(merged) > Len(crawl.discovered_urls) THEN merged
                   ELSE MergeHtml(crawl.discovered_urls, SortedPageUrls(html_candidates))
               analyzed_urls == select_urls(discovered_urls, crawl.max_pages,
                                            HARD_CAP_ANALYZED, crawl.site_root)
               existing_urls == {crawl.pages[k].url : k \in 1..Len(crawl.pages)}
               additional_urls == SelectSeq(analyzed_urls, LAMBDA u : u \notin existing_urls)
           IN  /\ Len(merged) > Len(crawl.discovered_urls) => html_candidates = <<>>
               /\ \E events \in [1..Len(additional_urls) -> FetchEvents] :
                      LET pages == IF additional_urls = <<>> THEN crawl.pages
                                   ELSE merge_pages(crawl.pages,
                                            fetch_pages(additional_urls, NoPolicy, events), 1)
                          added == Len(discovered_urls) - Len(crawl.discovered_urls)
                      IN  crawl' = [crawl EXCEPT
                              !.phase = "returned",
                              !.discovered_urls = discovered_urls,
                              !.analyzed_urls = analyzed_urls,
                              !.pages = pages,
                              !.analyzed_count = count_analyzed_html(pages),
                              !.browser = Browser(raised, ""),
                              !.used_playwright = added > 0,
                              !.playwright_reason =
                                  IF added > 0 THEN "" ELSE "no_new_urls"]
    /\ UNCHANGED <<netvars, readvars, policyvars, robotsvars, idxvars>>

NextCrawl ==
    \/ SelectAndFetch
    \/ CrawlReturn
    \/ CrawlBrowserError
    \/ CrawlFallback

SpecCrawl == InitCrawl /\ [][NextCrawl]_vars

\* ---------------------------------------------------------------------------
\* The indexability findings: build_indexability_findings, and the way
\* audit_one delivers findings through the policy gate
\* ---------------------------------------------------------------------------
\* pages of one crawl handed to the findings engine
MaxIdxPages == 2

\* the pages of the site, by path; every one answers 200
IdxPagePaths == {"/", "/a", "/b"}
\* canonical.resolved of a page: empty when the page has no canonical tag
CanonTargets == {"", "/", "/a", "/a/", "/c"}
\* final_status of canonical.target_fetch; NoneInt when it was not fetched
TargetStatuses == {NoneInt, 200, 404}
\* fetch.final_status of a page; NoneInt when the request raised (fetch.error
\* is then set and the page has no html)
PageStatuses == {200, 404, 500, NoneInt}

\* urlparse(url).path or "/" as characters
PathOf(url) ==
    CASE url = "/" -> <<"/">>
      [] url = "/a" -> <<"/", "a">>
      [] url = "/a/" -> <<"/", "a", "/">>
      [] url = "/b" -> <<"/", "b">>
      [] url = "/c" -> <<"/", "c">>
      [] OTHER -> <<"/">>

\* the loop of _parse_robots of the signals module: a User-agent line
\* replaces current_uas, a Disallow line with no group goes to "*"
RECURSIVE SignalsParseLoop(_, _, _, _)
SignalsParseLoop(text, i, ua_rules, current_uas) ==
    IF i > Len(text) THEN ua_rules
    ELSE LET line == text[i]
             lower == Lower(line.name)
         IN  IF line.name = "" THEN SignalsParseLoop(text, i + 1, ua_rules, current_uas)
             ELSE IF lower = "user-agent"
             THEN LET ua == Lower(line.value)
                      with_ua == IF ua \in DOMAIN ua_rules THEN ua_rules
                                 ELSE [u \in DOMAIN ua_rules \cup {ua} |->
                                          IF u = ua THEN <<>> ELSE ua_rules[u]]
                  IN  SignalsParseLoop(text, i + 1, with_ua, <<ua>>)
             ELSE IF lower = "disallow"
             THEN LET uas == IF current_uas = <<>> THEN <<"*">> ELSE current_uas
                      ua == uas[1]
                      appended == [u \in DOMAIN ua_rules \cup {ua} |->
                                      IF u = ua THEN Append(RulesOf(ua_rules, ua), line.rule)
                                      ELSE ua_rules[u]]
                  IN  SignalsParseLoop(text, i + 1, appended, uas)
             ELSE SignalsParseLoop(text, i + 1, ua_rules, current_uas)

signals_parse_robots(text) == SignalsParseLoop(text, 1, NoRules, <<>>)

\* robots.txt files a site may serve
IdxRobotsTexts ==
    {<<>>,
     DisallowAllText,
     <<[name |-> "Disallow", value |-> "", rule |-> <<"/">>]>>,
     <<[name |-> "User-Agent", value |-> "*", rule |-> <<>>],
       [name |-> "Disallow", value |-> "", rule |-> <<"/", "a">>]>>,
     <<[name |-> "User-Agent", value |-> "Bot", rule |-> <<>>],
       [name |-> "Disallow", value |-> "", rule |-> <<"/">>]>>,
     <<[name |-> "User-Agent", value |-> "*", rule |-> <<>>],
       [name |-> "User-Agent", value |-> "Bot", rule |-> <<>>],
       [name |-> "Disallow", value |-> "", rule |-> <<"/">>]>>}

\* what requests.get(robots_url) may give: a response or an exception
IdxRobotsAnswers ==
    [status : {200}, text : IdxRobotsTexts, error : {None}]
    \cup [status : {404, 500}, text : {<<>>}, error : {None}]
    \cup [status : {NoneInt}, text : {<<>>}, error : {"fetch_error"}]

\* _fetch_robots: the rules are parsed only from a 200 answer with a body
fetch_robots_signals(answer) ==
    [http_status |-> answer.status,
     error |-> answer.error,
     ua_rules |-> IF answer.status = 200 /\ answer.text # <<>>
                  THEN signals_parse_robots(answer.text) ELSE NoRules]

\* one entry of idx_signals["pages"]: the page, the status of its fetch, its
\* canonical, and the status of the fetch of the canonical target; a page
\* that did not answer 200 carries no canonical tag
IdxPages ==
    {p \in [url : IdxPagePaths, final_status : PageStatuses, canon : CanonTargets,
            target_status : TargetStatuses] :
        /\ p.canon = "" => p.target_status = NoneInt
        /\ p.final_status # 200 => p.canon = ""}

\* idx_signals["pages"]: a dict, so the urls are distinct; in insertion order
IdxPageLists ==
    {ps \in SeqsUpTo(IdxPages, MaxIdxPages) :
        \A i, j \in 1..Len(ps) : i # j => ps[i].url # ps[j].url}

\* a finding dict: the fields the gate reads, and for the consolidated
\* canonical finding the target and the affected pages of its evidence
IdxFinding(id, severity) ==
    [id |-> id, severity |-> severity,
     confidence_level |-> None, proof_completeness |-> None,
     policy_notes |-> <<>>, policy_actions |-> <<>>,
     url |-> "", target |-> "", affected_pages |-> <<>>]

\* a finding whose evidence names the page
PageFinding(id, severity, page_url) ==
    [IdxFinding(id, severity) EXCEPT !.url = page_url]

\* _matching_disallow_rule
RECURSIVE matching_disallow_rule(_, _, _)
matching_disallow_rule(path, rules, i) ==
    IF i > Len(rules) THEN <<>>
    ELSE IF rules[i] = <<>> THEN matching_disallow_rule(path, rules, i + 1)
    ELSE IF rules[i] = <<"/">> THEN rules[i]
    ELSE IF rules[i][1] = "/" /\ StartsWith(path, rules[i]) THEN rules[i]
    ELSE matching_disallow_rule(path, rules, i + 1)

\* the urls of the entries _blocked_important_urls returns
blocked_important_urls(important_urls, ua_rules) ==
    {important_urls[k] : k \in {j \in 1..Len(important_urls) :
        \E ua \in {"*", "googlebot"} :
            matching_disallow_rule(PathOf(important_urls[j]),
                                   RulesOf(ua_rules, ua), 1) # <<>>}}

\* the robots findings, in the order they are appended
RobotsFindings(robots_signals, important_urls, primary_urls) ==
    LET unreachable ==
            IF robots_signals.error # None
               \/ (robots_signals.http_status # NoneInt /\ robots_signals.http_status >= 400
                   /\ robots_signals.http_status # 404)
            THEN <<IdxFinding("IDX_ROBOTS_UNREACHABLE", "fail")>> ELSE <<>>
        missing ==
            IF robots_signals.http_status = 404
            THEN <<IdxFinding("IDX_ROBOTS_MISSING", "info")>> ELSE <<>>
        broad_block ==
            \E ua \in {"*", "googlebot"} :
                \E k \in 1..Len(RulesOf(robots_signals.ua_rules, ua)) :
                    RulesOf(robots_signals.ua_rules, ua)[k] = <<"/">>
        broad ==
            IF broad_block
            THEN <<IdxFinding("IDX_ROBOTS_HAS_BROAD_DISALLOW", "fail")>> ELSE <<>>
        blocked == blocked_important_urls(important_urls, robots_signals.ua_rules)
        blocks ==
            IF blocked # {}
            THEN <<IdxFinding("IDX_ROBOTS_BLOCKS_IMPORTANT_PAGES",
                              IF blocked \cap primary_urls # {} THEN "fail"
                              ELSE "warning")>>
            ELSE <<>>
    IN  unreachable \o missing \o broad \o blocks

\* (urlparse(url).path or "/").rstrip("/")
StrippedPath(url) == RstripSlash(IF url.path = "" THEN "/" ELSE url.path)

\* _canonical_points_offpage on parsed urls: None (falsy) when one is empty
CanonicalOffpage(final_url, canonical_url) ==
    /\ final_url # NoPageUrl
    /\ canonical_url # NoPageUrl
    /\ \/ Lower(final_url.host) # Lower(canonical_url.host)
       \/ StrippedPath(final_url) # StrippedPath(canonical_url)

\* _canonical_points_offpage for two urls of one host, given by their paths
canonical_points_offpage(final_url, canonical_url) ==
    CanonicalOffpage(PageUrl("https", "site", final_url, ""),
                     PageUrl("https", "site", canonical_url, ""))

\* position of the group of a canonical target in offpage_groups, 0 if none
GroupIndex(groups, target) ==
    IF \E k \in 1..Len(groups) : groups[k].target = target
    THEN CHOOSE k \in 1..Len(groups) : groups[k].target = target
    ELSE 0

\* offpage_groups.setdefault(key, {...}); entry["affected_pages"].append(...)
AddAffected(groups, target, url) ==
    IF GroupIndex(groups, target) = 0
    THEN Append(groups, [target |-> target, affected_pages |-> <<url>>,
                         target_fetches |-> <<>>])
    ELSE [groups EXCEPT ![GroupIndex(groups, target)].affected_pages = Append(@, url)]

\* entry["target_fetches"].append(target_fetch)
AddTargetFetch(groups, target, status) ==
    [groups EXCEPT ![GroupIndex(groups, target)].target_fetches = Append(@, status)]

\* the entry the loop `for _, entry in offpage_groups.items()` leaves bound:
\* the group inserted last
ConsolidatedEntry(groups) == groups[Len(groups)]

\* one pass of the body of `for page_url, page in pages.items()`. st holds the
\* findings, offpage_groups, and whether an exception left the function. The
\* block after the inner for loop runs once per page: it raises
\* UnboundLocalError while offpage_groups is empty, and otherwise appends the
\* one dict `finding` twice, after the second validation (which reads the
\* absent key "canonicals") has set it to partial and medium.
PageStep(st, page, important) ==
    LET has_canon == page.canon # ""
        missing ==
            IF ~has_canon
            THEN <<PageFinding("IDX_CANONICAL_MISSING",
                               IF important THEN "warning" ELSE "info", page.url)>>
            ELSE <<>>
        offpage == has_canon /\ canonical_points_offpage(page.url, page.canon)
        grouped == IF offpage THEN AddAffected(st.groups, page.canon, page.url)
                   ELSE st.groups
        fetched == has_canon /\ page.target_status # NoneInt
        groups == IF offpage /\ fetched
                  THEN AddTargetFetch(grouped, page.canon, page.target_status)
                  ELSE grouped
        non200 ==
            IF fetched /\ page.target_status # 200
            THEN <<PageFinding("IDX_CANONICAL_NON_200_TARGET", "fail", page.canon)>>
            ELSE <<>>
        status_4xx ==
            IF page.final_status # NoneInt /\ 400 <= page.final_status
               /\ page.final_status < 500
            THEN <<PageFinding("IDX_PAGE_STATUS_4XX",
                               IF important THEN "fail" ELSE "warning", page.url)>>
            ELSE <<>>
        status_5xx ==
            IF page.final_status # NoneInt /\ 500 <= page.final_status
               /\ page.final_status < 600
            THEN <<PageFinding("IDX_PAGE_STATUS_5XX", "fail", page.url)>>
            ELSE <<>>
        entry == ConsolidatedEntry(groups)
        valid_targets == \E k \in 1..Len(entry.target_fetches) :
                             entry.target_fetches[k] = 200
        built == [IdxFinding("IDX_CANONICAL_POINTS_OFFPAGE", "fail") EXCEPT
                     !.target = entry.target]
        first_validation ==
            [built EXCEPT
                !.proof_completeness = IF valid_targets THEN "complete" ELSE "partial",
                !.confidence_level = IF valid_targets THEN "high" ELSE "medium"]
        finding == [first_validation EXCEPT !.proof_completeness = "partial",
                                            !.confidence_level = "medium"]
    IN  IF st.raised # None THEN st
        ELSE IF groups = <<>>
        THEN [st EXCEPT !.raised = "UnboundLocalError"]
        ELSE [findings |-> st.findings \o missing \o non200 \o status_4xx
                              \o status_5xx \o <<finding, finding>>,
              groups |-> groups,
              raised |-> None]

RECURSIVE PageLoop(_, _, _, _)
PageLoop(st, pages, i, important_urls) ==
    IF i > Len(pages) THEN st
    ELSE PageLoop(PageStep(st, pages[i],
                           \E k \in 1..Len(important_urls) :
                               important_urls[k] = pages[i].url),
                  pages, i + 1, important_urls)

\* evidence.affected_pages is the list object of the group, so every finding
\* of a target shows the pages the group holds when the function returns
WithAffectedPages(fs, groups) ==
    [k \in 1..Len(fs) |->
        IF fs[k].id = "IDX_CANONICAL_POINTS_OFFPAGE"
        THEN [fs[k] EXCEPT !.affected_pages =
                 groups[GroupIndex(groups, fs[k].target)].affected_pages]
        ELSE fs[k]]

\* primary_urls: the first url of the homepage, booking and contact groups and
\* the service urls; of the important urls only a pricing link is not primary
PrimaryUrls(idx_signals) ==
    LET urls == {idx_signals.pages[k].url : k \in 1..Len(idx_signals.pages)}
    IN  IF idx_signals.site.pricing /\ Len(idx_signals.pages) >= 2
        THEN urls \ {idx_signals.pages[Len(idx_signals.pages)].url}
        ELSE urls

\* homepage_links: the anchors of pages[homepage_url].fetch.text, where
\* homepage_url is homepage_final_url.rstrip("/"); empty when pages has no
\* such key
HomepageLinks(idx_signals) ==
    IF idx_signals.pages # <<>>
       /\ \E k \in 1..Len(idx_signals.pages) :
              idx_signals.pages[k].url = RstripSlash(idx_signals.pages[1].url)
    THEN idx_signals.site.text_links
    ELSE {}

\* the findings on important pages no source leads to, in the order of
\* important_urls
RECURSIVE NotDiscoverable(_, _, _, _)
NotDiscoverable(idx_signals, important_urls, primary_urls, i) ==
    IF i > Len(important_urls) THEN <<>>
    ELSE LET page_url == important_urls[i]
             norm == RstripSlash(page_url)
             homepage_url == RstripSlash(idx_signals.pages[1].url)
             rest == NotDiscoverable(idx_signals, important_urls, primary_urls, i + 1)
         IN  IF norm = homepage_url THEN rest
             ELSE IF norm \notin HomepageLinks(idx_signals)
                     /\ norm \notin idx_signals.site.sitemap_urls
             THEN <<PageFinding("IDX_IMPORTANT_PAGE_NOT_DISCOVERABLE",
                                IF page_url \in primary_urls THEN "fail" ELSE "warning",
                                page_url)>> \o rest
             ELSE rest

\* the sitemap findings for a site whose sitemap probe answers 200 and whose
\* robots.txt declares no sitemap: only the sample can fail, and the check of
\* the important pages is part of the `if failing:` block. The failing sample
\* url is no important url.
SitemapFindings(idx_signals, important_urls, primary_urls) ==
    IF idx_signals.site.sample_failing
    THEN <<IdxFinding("IDX_SITEMAP_URLS_UNREACHABLE_SAMPLE", "warning")>>
         \o NotDiscoverable(idx_signals, important_urls, primary_urls, 1)
    ELSE <<>>

\* build_indexability_findings(idx_signals, important_urls) for a site whose
\* pages were fetched with no redirect and carry no noindex: the robots
\* findings, the page loop, the sitemap findings
build_indexability_findings(idx_signals, important_urls) ==
    LET primary_urls == PrimaryUrls(idx_signals)
        st == PageLoop([findings |-> RobotsFindings(idx_signals.robots, important_urls,
                                                    primary_urls),
                        groups |-> <<>>, raised |-> None],
                       idx_signals.pages, 1, important_urls)
    IN  IF st.raised # None THEN [raised |-> st.raised, findings |-> <<>>]
        ELSE [raised |-> None,
              findings |-> WithAffectedPages(st.findings, st.groups)
                           \o SitemapFindings(idx_signals, important_urls, primary_urls)]

\* idx_signals["important_urls"]: the keys of pages, the homepage first
ImportantUrls(pages) == [k \in 1..Len(pages) |-> pages[k].url]

\* what the sitemap sample, the fetched sitemaps and the homepage html say
\* about a site; only a site with a second important page has something to say
QuietSite ==
    [sample_failing |-> FALSE, sitemap_urls |-> {}, text_links |-> {},
     pricing |-> FALSE]
SiteInputs(pages) ==
    IF Len(pages) < 2 THEN {QuietSite}
    ELSE [sample_failing : BOOLEAN,
          sitemap_urls : {{}, {RstripSlash(pages[2].url)}},
          text_links : {{}, {RstripSlash(pages[2].url)}},
          pricing : BOOLEAN]

\* the keyword parameters of the finding builders audit_one calls
KeywordParameters ==
    [build_social_findings |-> {"signals"},
     build_share_meta_findings |-> {"signals"},
     build_indexability_findings |-> {"idx_signals", "important_urls"},
     build_conversion_loss_findings |-> {"mode", "signals", "business_inputs", "lang"}]

\* build_conversion_loss_findings(mode="broken", ...)
BrokenFindings == <<IdxFinding("CONVLOSS_SITE_UNREACHABLE", "fail")>>

InitIndex ==
    /\ frame = IdleFrame
    /\ wire = NewWire
    /\ result = NoResult
    /\ rl = NoRead
    /\ findings = <<>>
    /\ findings_in = <<>>
    /\ napplied = 0
    /\ robots = NoRobots
    /\ crawl = NoCrawl
    /\ \E answer \in IdxRobotsAnswers : \E pages \in IdxPageLists :
           idx \in [phase : {"signals"}, robots : {fetch_robots_signals(answer)},
                    pages : {pages}, site : SiteInputs(pages), raised : {None},
                    mode : {"ok"}, findings : {<<>>}]

\* a direct call of build_indexability_findings on the signals
BuildFindings ==
    /\ idx.phase = "signals"
    /\ LET out == build_indexability_findings(idx, ImportantUrls(idx.pages))
       IN  idx' = [idx EXCEPT !.phase = IF out.raised # None THEN "raised" ELSE "built",
                              !.raised = out.raised,
                              !.findings = out.findings]
    /\ UNCHANGED <<netvars, readvars, policyvars, robotsvars, crawlvars>>

\* enforce_policy_on_findings on the list the engine returned
GateFindings ==
    /\ idx.phase = "built"
    /\ idx' = [idx EXCEPT !.phase = "delivered",
                          !.findings = enforce_policy_on_findings(idx.findings)]
    /\ UNCHANGED <<netvars, readvars, policyvars, robotsvars, crawlvars>>

\* audit_one after the homepage was fetched: the builders are called with
\* lang=lang; a builder without that parameter raises TypeError, which the
\* `except Exception` branch turns into the gated findings of mode "broken"
AuditOne ==
    /\ idx.phase = "signals"
    /\ Len(idx.pages) >= 1
    /\ idx.pages[1].final_status = 200
    /\ LET called == {"build_social_findings", "build_share_meta_findings",
                      "build_indexability_findings", "build_conversion_loss_findings"}
           type_error == \E fn \in called : "lang" \notin KeywordParameters[fn]
           out == build_indexability_findings(idx, ImportantUrls(idx.pages))
       IN  IF type_error \/ out.raised # None
           THEN idx' = [idx EXCEPT !.phase = "delivered", !.mode = "broken",
                                   !.raised = IF type_error THEN "TypeError"
                                              ELSE out.raised,
                                   !.findings = enforce_policy_on_findings(BrokenFindings)]
           ELSE idx' = [idx EXCEPT !.phase = "delivered",
                                   !.findings = enforce_policy_on_findings(out.findings)]
    /\ UNCHANGED <<netvars, readvars, policyvars, robotsvars, crawlvars>>

NextIndex ==
    \/ BuildFindings
    \/ GateFindings
    \/ AuditOne

SpecIndex == InitIndex /\ [][NextIndex]_vars

\* ---------------------------------------------------------------------------
\* The canonical target fetch of extract_indexability_signals, and the
\* classification of the page by build_indexability_findings
\* ---------------------------------------------------------------------------
\* page_fetch["final_url"] of an analyzed page
CanonPageUrls ==
    {PageUrl("https", "site", path, "") : path \in {"", "/", "/a", "/a/"}}
    \cup {PageUrl("http", "Site", "/a", "")}

\* canonical["resolved"] of the first canonical tag: urljoin(base_url, href),
\* or empty when the page has no canonical tag or the tag has no href
CanonResolved ==
    {NoPageUrl}
    \cup [scheme : {"http", "https"}, host : {"site", "Site", "other"},
          path : {"", "/", "/a", "/a/", "/b"}, query : {"", "q"}, fragment : {""}]

\* found_count of the page: the first tag is the one that counts
CanonCounts == {0, 1, 2}

\* final_status of the fetch of the canonical target, NoneInt for an error
CanonFetchOutcomes == {200, 404, NoneInt}

\* canonical["target_fetch"]: None, or the summary of the fetch
NoTargetFetch == [fetched |-> FALSE, final_status |-> NoneInt]
TargetFetch(final_status) == [fetched |-> TRUE, final_status |-> final_status]

\* (mutant: the hosts are compared as written)
urls_equivalent_hostcase(a, b) ==
    /\ a # NoPageUrl
    /\ b # NoPageUrl
    /\ a.host = b.host
    /\ StrippedPath(a) = StrippedPath(b)

\* _urls_equivalent
urls_equivalent(a, b) ==
    /\ a # NoPageUrl
    /\ b # NoPageUrl
    /\ Lower(a.host) = Lower(b.host)
    /\ StrippedPath(a) = StrippedPath(b)

InitCanonical ==
    /\ frame = IdleFrame
    /\ wire = NewWire
    /\ result = NoResult
    /\ rl = NoRead
    /\ findings = <<>>
    /\ findings_in = <<>>
    /\ napplied = 0
    /\ robots = NoRobots
    /\ crawl = NoCrawl
    /\ idx \in {r \in [phase : {"page_fetched"}, final_url : CanonPageUrls,
                       found_count : CanonCounts, resolved : CanonResolved,
                       target_fetches : {0}, target_fetch : {NoTargetFetch},
                       offpage : {FALSE}] :
                  r.found_count = 0 => r.resolved = NoPageUrl}

\* extract_indexability_signals, the body of the page loop after the page was
\* fetched and its canonical extracted: the target is fetched when the
\* canonical resolves and is not equivalent to the final url
FetchCanonicalTarget ==
    /\ idx.phase = "page_fetched"
    /\ IF idx.resolved # NoPageUrl /\ ~urls_equivalent(idx.resolved, idx.final_url)
       THEN \E final_status \in CanonFetchOutcomes :
                idx' = [idx EXCEPT !.phase = "signals",
                                   !.target_fetches = @ + 1,
                                   !.target_fetch = TargetFetch(final_status)]
       ELSE idx' = [idx EXCEPT !.phase = "signals", !.target_fetch = NoTargetFetch]
    /\ UNCHANGED <<netvars, readvars, policyvars, robotsvars, crawlvars>>

\* build_indexability_findings on the page: canon_href and canon_resolved are
\* those of the first tag; the page goes to an off-page group when
\* _canonical_points_offpage is true
ClassifyCanonical ==
    /\ idx.phase = "signals"
    /\ idx' = [idx EXCEPT !.phase = "classified",
                          !.offpage = /\ idx.resolved # NoPageUrl
                                      /\ CanonicalOffpage(idx.final_url, idx.resolved)]
    /\ UNCHANGED <<netvars, readvars, policyvars, robotsvars, crawlvars>>

NextCanonical ==
    \/ FetchCanonicalTarget
    \/ ClassifyCanonical

SpecCanonical == InitCanonical /\ [][NextCanonical]_vars

\* ---------------------------------------------------------------------------
\* The two loops of crawl_v1._discover_urls_with_sources on deep sites: a
\* site whose sitemap indexes name a further index and refer back to indexes
\* already fetched, and a site without sitemaps whose pages link on to a next
\* page and back.  The sitemaps named by an index are numbered from 4 on.
\* The first site names sitemap 3 in robots.txt; for the second the function
\* takes sitemap.xml and sitemap_index.xml, which the site does not have.
\* ---------------------------------------------------------------------------
\* the path of a numbered page as robots_disallows reads it
WalkPath(url) == IF url.n = 0 THEN <<"/">> ELSE <<"/", "a">>
\* robots.txt answers 200 with Disallow: /
WalkPolicy == BuildPolicy(FALSE, Outcome("_fetch", 200, DisallowAllText, NoURL, None))

\* a log of queue.append: the urls put on the queue, and those of them put
\* on it again; empty, and after `urls` are put on the queue from url i on
NoCounts == [put |-> {}, again |-> {}]
RECURSIVE Counted(_, _, _)
Counted(counts, urls, i) ==
    IF i > Len(urls) THEN counts
    ELSE Counted([put |-> counts.put \cup {urls[i]},
                  again |-> IF urls[i] \in counts.put
                            THEN counts.again \cup {urls[i]} ELSE counts.again],
                 urls, i + 1)

\* declared_sitemaps
WalkDeclared(site) == IF site = "sitemap_chain" THEN <<3>> ELSE <<1, 2>>

\* what _fetch and _parse_sitemap_xml give for sitemap sm_url, the fetch
\* after nfetched others: an error; a urlset; on the site of chained indexes an
\* index that names itself, sitemap 3 and one sitemap not named before
WalkSitemapAnswers(site, sm_url, nfetched) ==
    {[kind |-> "error", urls |-> <<>>, children |-> <<>>]}
    \cup (IF site = "sitemap_chain"
          THEN {[kind |-> "urlset", urls |-> SmallLinks, children |-> <<>>]}
          ELSE {})
    \cup (IF site = "sitemap_chain" /\ nfetched + 1 < MaxSitemapFetches
          THEN {[kind |-> "sitemapindex", urls |-> <<>>,
                 children |-> <<sm_url, 3, 4 + nfetched>>]}
          ELSE {})

\* the anchors of page `current` when ndiscovered urls are discovered: none;
\* one to the homepage; on the site of chained pages one to a page not linked
\* before, with its fragment variant, the homepage and the page itself, and
\* on its homepage, unless that is a /cdn-cgi/ url, also two pages not linked
\* before
WalkPageLinks(site, current, homepage, ndiscovered) ==
    {<<>>, <<PageLink(0)>>}
    \cup (IF site = "link_chain"
          THEN {<<PageLink(ndiscovered + 1), Link("page", ndiscovered + 1, TRUE),
                  PageLink(0), Link(current.kind, current.n, FALSE)>>}
          ELSE {})
    \cup (IF site = "link_chain" /\ current = homepage /\ ~is_cdn_cgi(homepage)
          THEN {FreshLinks(ndiscovered + 1, 2)}
          ELSE {})

\* _discover_urls_with_sources is entered for the site of chained sitemap indexes
InitSitemapChain ==
    /\ frame = IdleFrame
    /\ wire = NewWire
    /\ result = NoResult
    /\ rl = NoRead
    /\ findings = <<>>
    /\ findings_in = <<>>
    /\ napplied = 0
    /\ robots = NoRobots
    /\ crawl \in [phase : {"start"}, site : {"sitemap_chain"}, homepage : HomepageUrls,
                   robots_policy : {WalkPolicy},
                   discovered : {<<>>}, seen : {{}}, sitemap_queue : {<<>>},
                   fetched_sitemaps : {{}}, sitemaps_fetched : {0},
                   queue : {<<>>}, enqueued : {NoCounts}, fetched_pages : {0},
                   last : {""}]
    /\ idx = NoIdx

\* _discover_urls_with_sources is entered for the site of chained pages
InitLinkChain ==
    /\ frame = IdleFrame
    /\ wire = NewWire
    /\ result = NoResult
    /\ rl = NoRead
    /\ findings = <<>>
    /\ findings_in = <<>>
    /\ napplied = 0
    /\ robots = NoRobots
    /\ crawl \in [phase : {"start"}, site : {"link_chain"}, homepage : HomepageUrls,
                   robots_policy : {WalkPolicy},
                   discovered : {<<>>}, seen : {{}}, sitemap_queue : {<<>>},
                   fetched_sitemaps : {{}}, sitemaps_fetched : {0},
                   queue : {<<>>}, enqueued : {NoCounts}, fetched_pages : {0},
                   last : {""}]
    /\ idx = NoIdx

\* the homepage seed, the robots policy and the declared sitemaps
WalkSeed ==
    /\ crawl.phase = "start"
    /\ crawl' = [crawl EXCEPT
           !.phase = "sitemaps",
           !.discovered = IF is_cdn_cgi(crawl.homepage) THEN <<>> ELSE <<crawl.homepage>>,
           !.seen = IF is_cdn_cgi(crawl.homepage) THEN {} ELSE {crawl.homepage},
           !.sitemap_queue = WalkDeclared(crawl.site)]
    /\ UNCHANGED <<netvars, readvars, policyvars, robotsvars, idxvars>>

\* one round of `while sitemap_queue and len(discovered) < HARD_CAP_DISCOVERED`;
\* sitemaps_fetched is len(sources["sitemaps"]["fetched"])
WalkSitemap ==
    /\ crawl.phase = "sitemaps"
    /\ crawl.sitemap_queue # <<>>
    /\ Len(crawl.discovered) < HARD_CAP_DISCOVERED
    /\ LET sm_url == Head(crawl.sitemap_queue)
           rest == Tail(crawl.sitemap_queue)
       IN  IF sm_url \in crawl.fetched_sitemaps
           THEN crawl' = [crawl EXCEPT !.sitemap_queue = rest]
           ELSE \E answer \in WalkSitemapAnswers(crawl.site, sm_url,
                                                 crawl.sitemaps_fetched) :
                    LET st == AddLinks(Lists(crawl.discovered, crawl.seen, crawl.queue),
                                       answer.urls, FALSE)
                    IN  crawl' = [crawl EXCEPT
                            !.fetched_sitemaps = @ \cup {sm_url},
                            !.sitemaps_fetched = @ + 1,
                            !.sitemap_queue = rest \o answer.children,
                            !.discovered = st.discovered,
                            !.seen = st.seen]
    /\ UNCHANGED <<netvars, readvars, policyvars, robotsvars, idxvars>>

\* the sitemap loop ends; queue = deque([homepage])
WalkSitemapsDone ==
    /\ crawl.phase = "sitemaps"
    /\ crawl.sitemap_queue = <<>> \/ Len(crawl.discovered) >= HARD_CAP_DISCOVERED
    /\ crawl' = [crawl EXCEPT !.phase = "bfs", !.queue = <<crawl.homepage>>,
                              !.enqueued = Counted(@, <<crawl.homepage>>, 1)]
    /\ UNCHANGED <<netvars, readvars, policyvars, robotsvars, idxvars>>

\* one round of `while queue and len(discovered) < HARD_CAP_DISCOVERED`:
\* current is skipped when _robots_allows refuses it; else it is fetched, and
\* the fetch fails or gives the page's anchors.  enqueued logs the urls put on
\* the queue, fetched_pages is sources["bfs"]["fetched_pages"], last tells how
\* the round went
WalkPage ==
    /\ crawl.phase = "bfs"
    /\ crawl.queue # <<>>
    /\ Len(crawl.discovered) < HARD_CAP_DISCOVERED
    /\ LET current == Head(crawl.queue)
       IN  IF ~robots_allows(WalkPath(current), crawl.robots_policy)
           THEN crawl' = [crawl EXCEPT !.queue = Tail(@), !.last = "skipped"]
           ELSE \/ crawl' = [crawl EXCEPT !.queue = Tail(@),
                                          !.fetched_pages = @ + 1,
                                          !.last = "failed"]
                \/ \E links \in WalkPageLinks(crawl.site, current, crawl.homepage,
                                              Len(crawl.discovered)) :
                       LET st == AddLinks(Lists(crawl.discovered, crawl.seen,
                                                Tail(crawl.queue)), links, TRUE)
                       IN  crawl' = [crawl EXCEPT
                               !.queue = st.queue,
                               !.enqueued =
                                   Counted(@, SubSeq(st.queue, Len(crawl.queue),
                                                     Len(st.queue)), 1),
                               !.fetched_pages = @ + 1,
                               !.discovered = st.discovered,
                               !.seen = st.seen,
                               !.last = "links"]
    /\ UNCHANGED <<netvars, readvars, policyvars, robotsvars, idxvars>>

\* the loop ends; return discovered, sources, robots_policy
WalkReturn ==
    /\ crawl.phase = "bfs"
    /\ crawl.queue = <<>> \/ Len(crawl.discovered) >= HARD_CAP_DISCOVERED
    /\ crawl' = [crawl EXCEPT !.phase = "returned"]
    /\ UNCHANGED <<netvars, readvars, policyvars, robotsvars, idxvars>>

NextWalk ==
    \/ WalkSeed
    \/ WalkSitemap
    \/ WalkSitemapsDone
    \/ WalkPage
    \/ WalkReturn

SpecSitemapChain == InitSitemapChain /\ [][NextWalk]_vars
SpecLinkChain == InitLinkChain /\ [][NextWalk]_vars

\* the function runs on: a loop whose test holds makes its next round
SpecLinkChainFair == SpecLinkChain /\ WF_vars(NextWalk)

\* ---------------------------------------------------------------------------
\* The page requests of one run: crawl_site (the breadth-first discovery,
\* then fetch_pages) and extract_indexability_signals, in the order audit_one
\* calls them, on a site whose homepage links to pages without links.
\* requests lists the page urls requested, in order.
\* ---------------------------------------------------------------------------
RunUrl(path) == PageUrl("https", "site", path, "")
\* the anchors of the homepage, in document order
RunLinkLists == {<<>>, <<"/a">>, <<"/b">>, <<"/a", "/b">>}
\* canonical.resolved of a page, "" without a canonical tag
RunCanonTargets == {"", "/", "/a"}

\* `for page_url in important_urls` from url i on: the page is requested, and
\* its canonical target when it resolves and is not equivalent to the page
RECURSIVE SignalRequests(_, _, _)
SignalRequests(important_urls, canon, i) ==
    IF i > Len(important_urls) THEN <<>>
    ELSE LET page_url == important_urls[i]
             canon_url == canon[page_url]
             target == IF canon_url # ""
                          /\ ~urls_equivalent(RunUrl(canon_url), RunUrl(page_url))
                       THEN <<canon_url>> ELSE <<>>
         IN  <<page_url>> \o target \o SignalRequests(important_urls, canon, i + 1)

\* a run is about to call crawl_site for the homepage
InitRun ==
    /\ frame = IdleFrame
    /\ wire = NewWire
    /\ result = NoResult
    /\ rl = NoRead
    /\ findings = <<>>
    /\ findings_in = <<>>
    /\ napplied = 0
    /\ robots = NoRobots
    /\ crawl = NoCrawl
    /\ idx \in [phase : {"run"}, url : {"/"}, links : RunLinkLists,
                keyword_links : SUBSET {"/a", "/b"},
                canon : [IdxPagePaths -> RunCanonTargets],
                discovered : {<<>>}, requests : {<<>>}]

\* the breadth-first loop of _discover_urls_with_sources: the homepage is
\* requested, and when it answers each page it links to is discovered, put on
\* the queue and requested in turn
RunDiscover ==
    /\ idx.phase = "run"
    /\ \E answered \in BOOLEAN :
           LET found == IF answered THEN idx.links ELSE <<>>
           IN  idx' = [idx EXCEPT !.phase = "discovered",
                                  !.discovered = <<idx.url>> \o found,
                                  !.requests = @ \o <<idx.url>> \o found]
    /\ UNCHANGED <<netvars, readvars, policyvars, robotsvars, crawlvars>>

\* fetch_pages(analyzed_urls): select_urls keeps the few discovered urls, and
\* each is requested
RunFetchPages ==
    /\ idx.phase = "discovered"
    /\ idx' = [idx EXCEPT !.phase = "crawled", !.requests = @ \o idx.discovered]
    /\ UNCHANGED <<netvars, readvars, policyvars, robotsvars, crawlvars>>

\* extract_indexability_signals: the homepage is requested, important_urls is
\* the homepage and the links picked by keyword, and each of them is requested
RunExtractSignals ==
    /\ idx.phase = "crawled"
    /\ LET picked == SelectSeq(idx.links, LAMBDA link : link \in idx.keyword_links)
           important_urls == <<idx.url>> \o picked
       IN  idx' = [idx EXCEPT
               !.phase = "signals_extracted",
               !.requests = @ \o <<idx.url>>
                              \o SignalRequests(important_urls, idx.canon, 1)]
    /\ UNCHANGED <<netvars, readvars, policyvars, robotsvars, crawlvars>>

NextRun ==
    \/ RunDiscover
    \/ RunFetchPages
    \/ RunExtractSignals

SpecRun == InitRun /\ [][NextRun]_vars

\* ---------------------------------------------------------------------------
\* Properties of the guarded network layer (under SpecNet)
\* ---------------------------------------------------------------------------
Ran(fn) == frame.op = fn \/ (frame.op = "idle" /\ result.fn = fn)

ListedAnswer(ip_list) ==
    \/ ip_list = GaiError
    \/ \A i \in 1..Len(ip_list) : ip_list[i] \in ListedUnsafeIPs

\* C2: when validate_url in _fetch is answered with one of 127.0.0.1,
\* 10.1.2.3, 192.168.1.1, 169.254.169.254, ::1, fc00::1, fe80::1 or with a
\* resolution failure, _fetch returns an error with no status and an empty
\* body, and opens no socket and sends no request for that url.
C2_UnsafeDnsBlocksFetch ==
    (wire.dns_seen.by = "validate_url" /\ ListedAnswer(wire.dns_seen.ip_list)) =>
        /\ frame.op = "idle"
        /\ result.fn = "_fetch"
        /\ result.error = "invalid_url"
        /\ result.status = NoneInt
        /\ result.body = <<>>
        /\ wire.nsock = wire.hop
        /\ wire.nreq = wire.hop

\* _fetch of a url whose host resolves to 169.254.169.254 has returned
C2_Witness ==
    /\ result.fn = "_fetch"
    /\ wire.dns_seen = ValidateSaw(<<IP_METADATA>>)
    /\ wire.hop = 0
    /\ wire.nsock = 0

\* _fetch has returned after a resolution failure
C2_WitnessDnsFailure ==
    /\ result.fn = "_fetch"
    /\ wire.dns_seen = ValidateSaw(GaiError)
    /\ wire.hop = 0

\* C3 (as claimed): if any address of the DNS answer is private, loopback,
\* link-local, unique-local or unspecified, _fetch and fetch_pages fail before
\* a socket opens, also when that address is not the first of the answer.
C3_AnyUnsafeAddressBlocks ==
    /\ (wire.dns_seen.by = "validate_url" /\ wire.dns_seen.unsafe) =>
           /\ frame.op = "idle"
           /\ result.error = "invalid_url"
           /\ wire.nsock = wire.hop
    /\ (wire.socket.safe_session /\ wire.dns_seen.by = "connection_from_host") =>
           ~wire.dns_seen.unsafe

\* C4 (as claimed): every HTTP request of a run is preceded by the
\* private-range check on its target host, so that no component opens a
\* connection to a private, loopback, link-local or unique-local address.
C4_NoPrivateConnection ==
    wire.socket # NoSocket => ~InPrivateRanges(wire.socket.ip)

\* C5: _fetch sends at most MAX_REDIRECTS + 1 requests and follows at most
\* MAX_REDIRECTS redirects, whatever the server answers; when it returns
\* too_many_redirects it has sent exactly MAX_REDIRECTS + 1 requests and
\* reports no status.
C5_FetchRedirectBound ==
    Ran("_fetch") =>
        /\ wire.nreq <= MAX_REDIRECTS + 1
        /\ wire.hop <= MAX_REDIRECTS
        /\ result.error = "too_many_redirects" =>
               /\ result.status = NoneInt
               /\ wire.nreq = MAX_REDIRECTS + 1

\* _fetch has given up on an endless chain of redirects
C5_Witness ==
    /\ result.fn = "_fetch"
    /\ result.error = "too_many_redirects"
    /\ wire.nreq = MAX_REDIRECTS + 1

\* C6: _fetch sends one request per hop and none that requests follows on its
\* own; the url of every request, the initial one and every Location target,
\* has passed validate_url for that hop before the request is sent; a fetch
\* that ends with invalid_url has sent no request to the rejected url.
C6_FetchValidatesEveryTarget ==
    Ran("_fetch") =>
        /\ wire.request # NoRequest =>
               /\ wire.request.validated
               /\ wire.request.url = frame.current_url
               /\ wire.nreq = wire.hop + 1
        /\ (frame.op = "_fetch" /\ wire.request = NoRequest) => wire.nreq = wire.hop
        /\ result.error = "invalid_url" => wire.nreq = wire.hop

\* _fetch has sent the request to a redirect target that passed validate_url
C6_Witness ==
    /\ frame.op = "_fetch"
    /\ wire.hop > 0
    /\ wire.request.validated
    /\ wire.request.url = frame.current_url

\* _fetch has rejected a redirect target without requesting it
C6_WitnessRejected ==
    /\ result.fn = "_fetch"
    /\ result.error = "invalid_url"
    /\ wire.hop > 0
    /\ wire.nreq = wire.hop

\* ---------------------------------------------------------------------------
\* Properties of read_limited_text (under SpecRead)
\* ---------------------------------------------------------------------------
\* bytes of the first k chunks of the body
PrefixBytes(chunks, k) == Len(Flatten(SubSeq(chunks, 1, k)))
\* the chunk with which the streamed total first exceeds cap
FirstOver(chunks, cap) ==
    CHOOSE k \in 1..Len(chunks) :
        /\ PrefixBytes(chunks, k) > cap
        /\ \A j \in 1..(k - 1) : PrefixBytes(chunks, j) <= cap

\* C7: under a byte cap, read_limited_text returns no more than max_bytes
\* bytes of text; when Content-Length exceeds max_bytes it reads no chunk and
\* buffers nothing; when the streamed total first exceeds max_bytes at some
\* chunk it stops at that chunk, having buffered nothing beyond it; in both
\* cases it returns ('', True) and _fetch returns error too_large with an
\* empty body; a body of at most max_bytes bytes, so one of exactly
\* max_bytes, is returned whole.
C7_ReadStopsAtCap ==
    (rl.phase \in {"read", "returned"} /\ rl.max_bytes # NoneInt) =>
        LET cap == rl.max_bytes
            chunks == rl.resp.chunks
            total == Len(Flatten(chunks))
            declared_over == rl.resp.content_length.kind = "int"
                             /\ rl.resp.content_length.n > cap
        IN  /\ Len(rl.out.text) <= cap
            /\ declared_over =>
                   /\ rl.out.chunks_read = 0
                   /\ rl.out.buffered = 0
                   /\ rl.out.text = <<>> /\ rl.out.too_large
            /\ (~declared_over /\ total > cap) =>
                   /\ rl.out.chunks_read = FirstOver(chunks, cap)
                   /\ rl.out.buffered = PrefixBytes(chunks, rl.out.chunks_read)
                   /\ rl.out.text = <<>> /\ rl.out.too_large
            /\ (~declared_over /\ total <= cap) =>
                   /\ ~rl.out.too_large
                   /\ Len(rl.out.text) = total
                   /\ rl.out.chunks_read = Len(chunks)
            /\ rl.phase = "returned" =>
                   IF rl.out.too_large
                   THEN rl.fetch.error = "too_large" /\ rl.fetch.body = <<>>
                   ELSE rl.fetch.error = None /\ rl.fetch.body = rl.out.text

\* a body of exactly max_bytes bytes, in two chunks around an empty one, has
\* come back whole from _fetch
C7_Witness ==
    /\ rl.phase = "returned"
    /\ rl.max_bytes = 2
    /\ rl.resp.chunks = << <<"a">>, <<>>, <<"x80">> >>
    /\ rl.resp.encoding = "latin-1"
    /\ rl.fetch.error = None
    /\ rl.fetch.body = <<"a", "u0080">>

\* reading has stopped at the second of three chunks and _fetch reports
\* too_large
C7_WitnessStopped ==
    /\ rl.phase = "returned"
    /\ rl.max_bytes = 2
    /\ Len(rl.resp.chunks) = 3
    /\ rl.out.chunks_read = 2
    /\ rl.fetch.error = "too_large"
    /\ rl.fetch.body = <<>>

\* ---------------------------------------------------------------------------
\* Properties of the finding policy gate (under SpecPolicy)
\* ---------------------------------------------------------------------------
Gated == napplied >= 1
Both == (1..Len(findings)) \cap (1..Len(findings_in))

\* C8: after enforce_policy_on_findings every finding with severity fail has
\* confidence_level high and proof_completeness complete, whatever severity,
\* confidence_level and proof_completeness it came in with; an unset
\* confidence_level has become medium and an unset proof_completeness
\* partial; a fail finding that came in with confidence_level low is a
\* warning with a recorded policy action.
C8_FailNeedsHighComplete ==
    Gated =>
        /\ \A i \in 1..Len(findings) :
               findings[i].severity = "fail" =>
                   /\ findings[i].confidence_level = "high"
                   /\ findings[i].proof_completeness = "complete"
        /\ \A i \in Both :
               /\ findings_in[i].confidence_level = None =>
                      findings[i].confidence_level = "medium"
               /\ findings_in[i].proof_completeness = None =>
                      findings[i].proof_completeness = "partial"
               /\ (findings_in[i].severity = "fail"
                      /\ findings_in[i].confidence_level = "low") =>
                      /\ findings[i].severity = "warning"
                      /\ Len(findings[i].policy_actions) >= 1

\* a fail finding with low confidence and complete proof has gone through the
\* gate, next to a fail finding that stays fail
C8_Witness ==
    /\ Gated
    /\ \E i \in Both :
           /\ findings_in[i].severity = "fail"
           /\ findings_in[i].confidence_level = "low"
           /\ findings_in[i].proof_completeness = "complete"
           /\ findings[i].severity = "warning"
    /\ \E i \in Both : findings[i].severity = "fail"

\* a fail finding with unset confidence and proof has gone through the gate
C8_WitnessUnset ==
    /\ Gated
    /\ \E i \in Both :
           /\ findings_in[i].severity = "fail"
           /\ findings_in[i].confidence_level = None
           /\ findings_in[i].proof_completeness = None
           /\ findings[i].severity = "warning"

\* the finding came in as fail without both high confidence and complete proof
LacksProof(f) ==
    f.severity = "fail" /\ ~(f.confidence_level = "high" /\ f.proof_completeness = "complete")

\* C9: the output of enforce_policy_on_findings has as many findings as the
\* input, with the same ids in the same order; a finding that came in as fail
\* without high confidence and complete proof is a warning with exactly one
\* policy note and one action {type severity_clamp, from fail, to warning,
\* reason}; every other finding has the severity it came in with and no note
\* or action.
C9_NothingDroppedOnlyGatedChange ==
    Gated =>
        /\ Len(findings) = Len(findings_in)
        /\ \A i \in Both :
               /\ findings[i].id = findings_in[i].id
               /\ IF LacksProof(findings_in[i])
                  THEN /\ findings[i].severity = "warning"
                       /\ findings[i].policy_notes = <<PolicyNote>>
                       /\ Len(findings[i].policy_actions) = 1
                       /\ findings[i].policy_actions[1].type = "severity_clamp"
                       /\ findings[i].policy_actions[1].from = "fail"
                       /\ findings[i].policy_actions[1].to = "warning"
                       /\ findings[i].policy_actions[1].reason = "confidence_proof_gate"
                  ELSE /\ findings[i].severity = findings_in[i].severity
                       /\ findings[i].policy_notes = <<>>
                       /\ findings[i].policy_actions = <<>>

\* a list of a downgraded fail and an untouched warning has gone through the
\* gate
C9_Witness ==
    /\ Gated
    /\ Len(findings) = 2
    /\ LacksProof(findings_in[1])
    /\ findings[1].severity = "warning"
    /\ Len(findings[1].policy_actions) = 1
    /\ findings_in[2].severity = "warning"
    /\ findings[2].severity = "warning"
    /\ findings[2].policy_actions = <<>>

ClampActions(f) ==
    {j \in 1..Len(f.policy_actions) : f.policy_actions[j].type = "severity_clamp"}

\* C10: once the gate has run, running it again on its own output changes
\* nothing, and a finding carries at most one severity_clamp action and at
\* most one policy note however often the gate has run.
C10_Idempotent ==
    [][Gated =>
          /\ findings' = findings
          /\ \A i \in 1..Len(findings') :
                 /\ Cardinality(ClampActions(findings'[i])) <= 1
                 /\ Len(findings'[i].policy_notes) <= 1]_vars

\* the gate has run more than once on a list with a downgraded finding
C10_Witness ==
    /\ napplied >= 2
    /\ \E i \in 1..Len(findings) :
           /\ Cardinality(ClampActions(findings[i])) = 1
           /\ Len(findings[i].policy_notes) = 1

\* ---------------------------------------------------------------------------
\* Properties of the robots.txt handling (under SpecRobots)
\* ---------------------------------------------------------------------------
\* C11 (as claimed): for a site with a base url, _build_robots_policy decides
\* ignore when robots enforcement is disabled, with the rules still parsed;
\* allow with reason robots_unreachable_allow when the fetch of robots.txt
\* fails or returns a status other than 200; and respect in every other case.
C11_PolicyDecision ==
    (robots.phase = "policy" /\ robots.site_root # "") =>
        IF robots.ignore
        THEN /\ robots.policy.policy = "ignore"
             /\ (robots.fetched.status = 200 /\ robots.fetched.body # <<>>) =>
                    robots.policy.rules = parse_robots(robots.fetched.body)
        ELSE IF robots.fetched.error # None \/ robots.fetched.status # 200
        THEN /\ robots.policy.policy = "allow"
             /\ robots.policy.reason = "robots_unreachable_allow"
        ELSE robots.fetched.body # <<>> => robots.policy.policy = "respect"

\* the rules that count for the tool: those of * and then those of scope
Applicable(ua_rules) ==
    (IF "*" \in DOMAIN ua_rules THEN ua_rules["*"] ELSE <<>>)
    \o (IF "scope" \in DOMAIN ua_rules THEN ua_rules["scope"] ELSE <<>>)
\* rule is the path itself or the beginning of it, character by character
LiteralPrefix(rule, path) ==
    /\ Len(rule) <= Len(path)
    /\ \A k \in 1..Len(rule) : path[k] = rule[k]
\* the positions of the rules that block path
Blocking(ua_rules, path) ==
    {i \in 1..Len(Applicable(ua_rules)) :
        LET rule == Applicable(ua_rules)[i]
        IN  rule # <<>> /\ (rule = <<"/">> \/ LiteralPrefix(rule, path))}

\* C12: robots_disallows blocks a url exactly when, among the rules of * and
\* of the tool's own user agent, some rule is '/' or some non-empty rule is a
\* literal prefix of the url's path (the empty path counting as '/'); it
\* reports the first such rule, and allows the url otherwise.
C12_LiteralPrefixRules ==
    robots.phase = "checked" =>
        LET path == IF robots.path = <<>> THEN <<"/">> ELSE robots.path
            hits == Blocking(robots.rules, path)
        IN  /\ robots.verdict.disallowed <=> hits # {}
            /\ hits # {} =>
                   \E i \in hits :
                       /\ \A j \in hits : i <= j
                       /\ robots.verdict.rule = Applicable(robots.rules)[i]
            /\ hits = {} => robots.verdict.rule = <<>>

\* with the rule /a for *, the path /a/ is blocked
C12_Witness ==
    /\ robots.phase = "checked"
    /\ DOMAIN robots.rules = {"*"}
    /\ robots.rules["*"] = << <<"/", "a">> >>
    /\ robots.path = <<"/", "a", "/">>
    /\ robots.verdict = Verdict(TRUE, <<"/", "a">>)

\* with the rule /a for *, the path /b is allowed
C12_WitnessAllowed ==
    /\ robots.phase = "checked"
    /\ DOMAIN robots.rules = {"*"}
    /\ robots.rules["*"] = << <<"/", "a">> >>
    /\ robots.path = <<"/", "b">>
    /\ ~robots.verdict.disallowed

\* the rule is one of the rules the parser holds for the user agent named
HasRule(ua_rules, name, rule) ==
    /\ Lower(name) \in DOMAIN ua_rules
    /\ \E k \in 1..Len(ua_rules[Lower(name)]) : ua_rules[Lower(name)][k] = rule

\* C13 (as claimed): when two User-agent lines in a row are followed by a
\* Disallow line, the parsed rules hold that rule for both user agents.
C13_ConsecutiveAgentsShareRules ==
    robots.phase = "parsed" =>
        \A i \in 1..(Len(robots.text) - 2) :
            (/\ robots.text[i].name = "User-Agent"
             /\ robots.text[i + 1].name = "User-Agent"
             /\ robots.text[i + 2].name = "Disallow") =>
                /\ HasRule(robots.rules, robots.text[i].value, robots.text[i + 2].rule)
                /\ HasRule(robots.rules, robots.text[i + 1].value, robots.text[i + 2].rule)

\* ---------------------------------------------------------------------------
\* Properties of select_urls (under SpecSelect)
\* ---------------------------------------------------------------------------
\* C16 (as claimed): select_urls returns at most min(max_pages, hard_cap)
\* urls for every max_pages >= 0 and hard_cap >= 0; with max_pages = 0 it
\* returns none.
C16_AtMostMinOfLimits ==
    crawl.phase = "selected" =>
        Len(crawl.selected) <= Min(crawl.max_pages, crawl.hard_cap_analyzed)

\* the urls in the order select_urls offers them to add_url
Offered(c) ==
    (IF canonical_homepage(c.site_root) # NoPageUrl
     THEN <<canonical_homepage(c.site_root)>> ELSE <<>>) \o c.discovered_urls
\* the two urls are the same but for the letter case of any part
CaseVariant(u, v) ==
    /\ Lower(u.scheme) = Lower(v.scheme)
    /\ Lower(u.host) = Lower(v.host)
    /\ Lower(u.path) = Lower(v.path)
    /\ u.query = v.query
    /\ u.fragment = v.fragment
\* the two urls are the same but for the letter case of scheme or host
SchemeHostCaseVariant(u, v) ==
    /\ Lower(u.scheme) = Lower(v.scheme)
    /\ Lower(u.host) = Lower(v.host)
    /\ u.path = v.path
    /\ u.query = v.query
    /\ u.fragment = v.fragment
\* the two urls are the same but for one trailing slash of the path
SlashVariant(u, v) ==
    /\ u.scheme = v.scheme
    /\ u.host = v.host
    /\ u.path = v.path \o "/" \/ v.path = u.path \o "/"
    /\ u.query = v.query
    /\ u.fragment = v.fragment
Elements(seq) == {seq[k] : k \in 1..Len(seq)}

\* C17 (as claimed): two discovered urls that differ only in letter case or
\* only in a trailing slash have the same dedupe key, and the output does not
\* hold both of them.
C17_CaseOrSlashVariantsShareKey ==
    crawl.phase = "selected" =>
        \A u, v \in Elements(crawl.discovered_urls) :
            (u # v /\ (CaseVariant(u, v) \/ SlashVariant(u, v))) =>
                /\ canonicalize_for_dedupe(u) = canonicalize_for_dedupe(v)
                /\ ~(u \in Elements(crawl.selected) /\ v \in Elements(crawl.selected))

\* C17 (amended): urls that differ only in the letter case of scheme or host,
\* or only in a trailing slash, have the same dedupe key; the output holds at
\* most one url per key, each the first analyzable url with its key among the
\* homepage followed by the discovered urls; and below the page limit every
\* analyzable url has its key in the output.  The path's letter case is kept.
C17_OncePerKey ==
    crawl.phase = "selected" =>
        LET offered == Offered(crawl)
            selected == crawl.selected
            key(u) == canonicalize_for_dedupe(u)
        IN  /\ \A u, v \in Elements(offered) :
                   (SchemeHostCaseVariant(u, v) \/ SlashVariant(u, v)) => key(u) = key(v)
            /\ \A i, j \in 1..Len(selected) : i # j => key(selected[i]) # key(selected[j])
            /\ \A k \in 1..Len(selected) :
                   \E p \in 1..Len(offered) :
                       /\ offered[p] = selected[k]
                       /\ is_analyzable(offered[p])
                       /\ \A q \in 1..(p - 1) :
                              is_analyzable(offered[q]) => key(offered[q]) # key(offered[p])
            /\ Len(selected) < EffectiveMaxPages(crawl.max_pages, crawl.hard_cap_analyzed) =>
                   \A p \in 1..Len(offered) :
                       is_analyzable(offered[p]) =>
                           \E k \in 1..Len(selected) : key(selected[k]) = key(offered[p])

\* /a/ comes first; its host-case and scheme-case variants /a are left out
C17_Witness ==
    /\ crawl.phase = "selected"
    /\ crawl.site_root = NoPageUrl
    /\ crawl.max_pages = 2
    /\ crawl.hard_cap_analyzed = HARD_CAP_ANALYZED
    /\ crawl.discovered_urls = <<PageUrl("https", "site", "/a/", ""),
                                 PageUrl("https", "Site", "/a", ""),
                                 PageUrl("HTTPS", "site", "/a", "")>>
    /\ crawl.selected = <<PageUrl("https", "site", "/a/", "")>>

\* ---------------------------------------------------------------------------
\* Properties of discovery (under SpecDiscover)
\* ---------------------------------------------------------------------------
\* C14: after the homepage seed, after every sitemap and every page of the
\* breadth-first search, and after the render-fallback merge, the discovered
\* list has at most HARD_CAP_DISCOVERED urls and holds no url twice.
C14_DiscoveredCappedAndDistinct ==
    crawl.phase # "start" =>
        /\ Len(crawl.discovered) <= HARD_CAP_DISCOVERED
        /\ Cardinality({crawl.discovered[k] : k \in 1..Len(crawl.discovered)})
               = Len(crawl.discovered)

\* the search stopped at the hard cap with links left over
C14_Witness ==
    /\ crawl.phase = "bfs"
    /\ crawl.bfs_rounds > 0
    /\ Len(crawl.discovered) = HARD_CAP_DISCOVERED
    /\ crawl.discovered[HARD_CAP_DISCOVERED] = Url("page", HARD_CAP_DISCOVERED - 1)

\* the render fallback filled the list up to the hard cap
C14_WitnessFallback ==
    /\ crawl.phase = "returned"
    /\ crawl.bfs_rounds > 0
    /\ Len(crawl.discovered) = HARD_CAP_DISCOVERED
    /\ crawl.discovered[HARD_CAP_DISCOVERED] = Url("page", 3 * HARD_CAP_DISCOVERED)

\* ---------------------------------------------------------------------------
\* Properties of crawl_site (under SpecCrawl)
\* ---------------------------------------------------------------------------
\* C15 (as claimed): when crawl_site returns, the number of analyzed pages is
\* at most HARD_CAP_ANALYZED and at most the number of discovered urls, also
\* after the render fallback.
C15_AnalyzedWithinDiscovered ==
    crawl.phase = "returned" =>
        /\ crawl.analyzed_count <= HARD_CAP_ANALYZED
        /\ crawl.analyzed_count <= Len(crawl.discovered_urls)

\* C20 (as claimed): fetch_pages returns one page per input url, in input
\* order, and the page of a url whose fetch failed has an error.
C20_OnePagePerUrlFailuresMarked ==
    crawl.phase = "fetched" =>
        /\ Len(crawl.pages) = Len(crawl.analyzed_urls)
        /\ \A i \in 1..Len(crawl.pages) :
               /\ crawl.pages[i].url = crawl.analyzed_urls[i]
               /\ crawl.pages[i].fetch \in FailedEvents => crawl.pages[i].error # None

\* ---------------------------------------------------------------------------
\* Properties of the indexability findings (under SpecIndex)
\* ---------------------------------------------------------------------------
\* the signals say robots.txt answered 200 with Disallow: / for "*", and a
\* homepage was fetched
BroadDisallowSite ==
    /\ idx.robots.http_status = 200
    /\ \E k \in 1..Len(RulesOf(idx.robots.ua_rules, "*")) :
           RulesOf(idx.robots.ua_rules, "*")[k] = <<"/">>
    /\ Len(idx.pages) >= 1
    /\ idx.pages[1].final_status = 200

\* C18 (as claimed): for a site whose robots.txt answers 200 with Disallow: /
\* for "*" and whose homepage is reachable, the findings delivered after the
\* policy gate hold IDX_ROBOTS_HAS_BROAD_DISALLOW with severity fail.
C18_BroadDisallowDeliveredAsFail ==
    (idx.phase = "delivered" /\ BroadDisallowSite) =>
        \E k \in 1..Len(idx.findings) :
            /\ idx.findings[k].id = "IDX_ROBOTS_HAS_BROAD_DISALLOW"
            /\ idx.findings[k].severity = "fail"

\* the canonical targets some page declares off-page
OffpageTargets ==
    {idx.pages[k].canon : k \in {j \in 1..Len(idx.pages) :
        /\ idx.pages[j].canon # ""
        /\ canonical_points_offpage(idx.pages[j].url, idx.pages[j].canon)}}

\* the pages declaring a target, in page order
DeclaringPages(target) ==
    LET declaring == SelectSeq(idx.pages, LAMBDA p : p.canon = target)
    IN  [k \in 1..Len(declaring) |-> declaring[k].url]

\* C19 (as claimed): after build_indexability_findings the list holds exactly
\* one IDX_CANONICAL_POINTS_OFFPAGE finding per distinct off-page canonical
\* target, and its affected_pages lists every page declaring that target.
C19_OneOffpageFindingPerTarget ==
    idx.phase \in {"built", "raised"} =>
        \A target \in OffpageTargets :
            LET of_target == {k \in 1..Len(idx.findings) :
                                 /\ idx.findings[k].id = "IDX_CANONICAL_POINTS_OFFPAGE"
                                 /\ idx.findings[k].target = target}
            IN  /\ Cardinality(of_target) = 1
                /\ \A k \in of_target :
                       idx.findings[k].affected_pages = DeclaringPages(target)

\* C30 (as claimed): build_indexability_findings returns a findings list and
\* raises nothing for every well-formed signal record, also when no page has
\* a canonical tag, when every canonical is self-referential, and when the
\* first page evaluated has no off-page canonical.
C30_BuildReturnsForEveryRecord ==
    idx.phase \in {"built", "raised"} =>
        /\ idx.phase = "built"
        /\ idx.raised = None

\* the pages of the record whose fetch ended in an error
ErrorPages == {k \in 1..Len(idx.pages) : idx.pages[k].final_status = NoneInt}

\* the ids of the page findings that report a page that could not be served
PageFailureIds ==
    {"IDX_PAGE_STATUS_4XX", "IDX_PAGE_STATUS_5XX", "IDX_PAGE_UNREACHABLE"}

\* C21 (as claimed): for every page of the signal record whose fetch ended in
\* an error (no final status), the list build_indexability_findings returns
\* holds a finding about that page that reports the failure.
C21_FetchErrorReported ==
    idx.phase = "built" =>
        \A k \in ErrorPages :
            \E j \in 1..Len(idx.findings) :
                /\ idx.findings[j].url = idx.pages[k].url
                /\ idx.findings[j].id \in PageFailureIds

\* the important pages other than the homepage that neither the homepage
\* html links to nor a fetched sitemap lists
UndiscoverablePages ==
    {k \in 2..Len(idx.pages) :
        /\ RstripSlash(idx.pages[k].url) # RstripSlash(idx.pages[1].url)
        /\ RstripSlash(idx.pages[k].url) \notin idx.site.text_links
        /\ RstripSlash(idx.pages[k].url) \notin idx.site.sitemap_urls}

\* C28 (as claimed): for every important page other than the homepage that is
\* neither linked from the homepage nor listed in a fetched sitemap, the
\* returned list holds IDX_IMPORTANT_PAGE_NOT_DISCOVERABLE for it, fail if the
\* page is primary and warning otherwise, whether or not a sampled sitemap url
\* is unreachable.
C28_NotDiscoverableAlwaysEvaluated ==
    idx.phase = "built" =>
        \A k \in UndiscoverablePages :
            \E j \in 1..Len(idx.findings) :
                /\ idx.findings[j].id = "IDX_IMPORTANT_PAGE_NOT_DISCOVERABLE"
                /\ idx.findings[j].url = idx.pages[k].url
                /\ idx.findings[j].severity =
                       IF idx.pages[k].url \in PrimaryUrls(idx) THEN "fail" ELSE "warning"

\* ---------------------------------------------------------------------------
\* Properties of the canonical target fetch (under SpecCanonical)
\* ---------------------------------------------------------------------------
\* the host of a url, hosts being case-insensitive
HostName(url) == IF url.host = "Site" THEN "site" ELSE url.host

\* the path of a url without trailing slashes; the empty path is the root
PathName(url) == IF url.path \in {"", "/"} THEN "root"
                 ELSE IF url.path \in {"/a", "/a/"} THEN "a"
                 ELSE url.path

\* the first canonical of the page resolves to another host or another path
\* than the page's final url
CanonicalElsewhere ==
    /\ idx.resolved # NoPageUrl
    /\ \/ HostName(idx.resolved) # HostName(idx.final_url)
       \/ PathName(idx.resolved) # PathName(idx.final_url)

\* C27: the canonical target of a page is fetched exactly once when the first
\* canonical resolves to another host or path than the page's final url, and
\* not at all when it is self-referential or absent; target_fetch is non-null
\* exactly for the pages the findings engine classifies as off-page.
C27_TargetFetchedIffOffpage ==
    /\ idx.phase \in {"signals", "classified"} =>
           /\ idx.target_fetches = IF CanonicalElsewhere THEN 1 ELSE 0
           /\ idx.target_fetch.fetched = (idx.target_fetches = 1)
    /\ idx.phase = "classified" =>
           idx.target_fetch.fetched = idx.offpage

\* a page whose canonical names the same host in another case and another
\* path: the target was fetched once and the page classified off-page
C27_Witness ==
    /\ idx.phase = "classified"
    /\ idx.offpage
    /\ idx.target_fetches = 1
    /\ idx.final_url.host = "Site"
    /\ idx.resolved.host = "site"
    /\ idx.resolved.path = "/b"

\* ---------------------------------------------------------------------------
\* Properties of _fetch_with_redirects (under SpecNet)
\* ---------------------------------------------------------------------------
\* requests, chain length and flags of _fetch_with_redirects stay in bounds and
\* the outcome is one of: a final response, a transport error, loop, too_many
FwrBoundedOneOutcome ==
    /\ frame.op = "_fetch_with_redirects" =>
           /\ wire.nreq <= MAX_HOPS + 1
           /\ frame.redirects <= MAX_HOPS
    /\ result.fn = "_fetch_with_redirects" =>
           /\ ~(result.loop /\ result.too_many)
           /\ result.chain <= MAX_HOPS
           /\ result.error # None =>
                  (~result.loop /\ ~result.too_many /\ result.status = NoneInt)
           /\ (result.loop \/ result.too_many) => result.status \in RedirectStatuses

\* a redirect that targets the url the call started with (a url already
\* requested in this chain) is not followed
FwrStartUrlNotRequestedAgain ==
    (frame.op = "_fetch_with_redirects" /\ frame.pc = "plain_send"
         /\ frame.redirects > 0) =>
        frame.current_url # frame.url

\* C26 (as claimed): _fetch_with_redirects ends after at most max_hops + 1
\* requests in exactly one outcome, never with loop and too_many both set,
\* with at most max_hops chain entries, and loop is set when a redirect
\* targets a url already visited in this chain.
C26_BoundedHopsLoopFlagged ==
    /\ FwrBoundedOneOutcome
    /\ FwrStartUrlNotRequestedAgain


\* ---------------------------------------------------------------------------
\* Properties of the render fallback and of robots enforcement in crawl_site
\* (under SpecCrawl)
\* ---------------------------------------------------------------------------
\* C23: when the browser is unavailable or raises during the render fallback,
\* crawl_site returns with the discovered urls and the pages of static
\* discovery unchanged, used_playwright false, and the error in
\* playwright_reason.
C23_BrowserFailureKeepsStatic ==
    [][(crawl.phase = "fetched" /\ crawl'.phase = "returned" /\ crawl'.browser.raised)
          => /\ crawl'.discovered_urls = crawl.discovered_urls
             /\ crawl'.pages = crawl.pages
             /\ crawl'.used_playwright = FALSE
             /\ ReasonOrNone(crawl'.playwright_reason) # None
             /\ crawl'.playwright_reason = crawl'.browser.error]_vars

\* whether the rules parsed from robots.txt disallow the url
RulesDisallow(url, policy) ==
    robots_disallows(CharsOfPath(url.path), policy.rules).disallowed

\* C29: with enforcement enabled and robots.txt answered with 200, every page
\* record of a url the parsed rules disallow has error robots_disallowed and
\* no request was made for it, after the first fetch_pages and after the
\* render fallback.
C29_DisallowedNeverFetched ==
    (/\ crawl.phase \in {"fetched", "returned"}
     /\ ~crawl.robots_policy.ignored
     /\ crawl.robots_policy.http_status = 200)
        => \A k \in 1..Len(crawl.pages) :
               RulesDisallow(crawl.pages[k].url, crawl.robots_policy)
                   => /\ crawl.pages[k].error = "robots_disallowed"
                      /\ crawl.pages[k].fetch = "none"


\* ---------------------------------------------------------------------------
\* Properties of the sitemap loop and the breadth-first loop on deep sites
\* (under SpecSitemapChain and SpecLinkChainFair)
\* ---------------------------------------------------------------------------
\* C24: sitemap discovery is bounded by the hard cap: each sitemap url is
\* fetched at most once, and no more than HARD_CAP_DISCOVERED sitemap documents
\* are fetched in one run, also when indexes name each other or name only
\* further indexes that give no page url.
C24_SitemapFetchesWithinCap ==
    crawl.phase \in {"sitemaps", "bfs", "returned"}
        => /\ crawl.sitemaps_fetched = Cardinality(crawl.fetched_sitemaps)
           /\ crawl.sitemaps_fetched <= HARD_CAP_DISCOVERED

\* no url was put on the queue twice
EnqueuedOnce == crawl.enqueued.again = {}
\* the test of the breadth-first loop fails
BfsLoopOver == crawl.queue = <<>> \/ Len(crawl.discovered) >= HARD_CAP_DISCOVERED
\* in the breadth-first loop and after it
BfsBounded ==
    crawl.phase \in {"bfs", "returned"}
        => /\ EnqueuedOnce
           /\ crawl.fetched_pages <= HARD_CAP_DISCOVERED
           /\ Len(crawl.discovered) <= HARD_CAP_DISCOVERED
           /\ crawl.phase = "returned" => BfsLoopOver
\* a step of the loop: it is a round exactly while the loop's test holds, and
\* a round whose fetch failed takes only the fetched url off the queue
BfsStep ==
    crawl.phase = "bfs"
        => /\ crawl'.phase = "returned" <=> BfsLoopOver
           /\ (crawl'.phase = "bfs" /\ crawl'.last = "failed")
                  => /\ crawl'.queue = Tail(crawl.queue)
                     /\ crawl'.discovered = crawl.discovered
                     /\ crawl'.fetched_pages = crawl.fetched_pages + 1

\* C25: the breadth-first loop ends on every link graph, cycles included:
\* no url is put on the queue twice, at most HARD_CAP_DISCOVERED pages are
\* fetched, the loop ends exactly when the queue is empty or the discovered
\* list has HARD_CAP_DISCOVERED urls, and a failed fetch leaves the rest of the
\* queue to be processed.
C25_BfsTerminates ==
    /\ []BfsBounded
    /\ [][BfsStep]_vars
    /\ (crawl.phase = "bfs") ~> (crawl.phase = "returned")
\* a chain of pages followed to the cap from a homepage that is not itself
\* discovered: HARD_CAP_DISCOVERED pages fetched, links back to pages seen
\* dropped, and the last page put on the queue left unfetched
C25_Witness ==
    /\ crawl.phase = "returned"
    /\ crawl.site = "link_chain"
    /\ crawl.fetched_pages = HARD_CAP_DISCOVERED
    /\ Len(crawl.discovered) = HARD_CAP_DISCOVERED
    /\ crawl.queue # <<>>


\* ---------------------------------------------------------------------------
\* Properties of the page requests of one run (under SpecRun)
\* ---------------------------------------------------------------------------
\* C22: within one run no page url is requested more than once across
\* discovery, page analysis and signal extraction.
C22_EachPageRequestedOnce ==
    \A i, j \in 1..Len(idx.requests) :
        i # j => idx.requests[i] # idx.requests[j]

====
